---- MODULE Spec2Model ----
(***************************************************************************)
(* A model of the mythril VCPU engine: the VMCS primitive and its handle   *)
(* states (src/src/vmcs.rs) and the VM-exit handler with its pending       *)
(* interrupt bookkeeping (src/mythril/src/vcpu.rs).                        *)
(*                                                                         *)
(* 64-bit words (VMCS fields, MSRs, RFLAGS) are modelled as the set of     *)
(* their set bit positions, a subset of 0..63: x | y is the union, x & y   *)
(* the intersection and !x the complement in 0..63.  TLC's integers are    *)
(* 32 bits wide and cannot hold 0x80000000.                                *)
(***************************************************************************)
EXTENDS Integers, Sequences, FiniteSets, TLC

(***************************************************************************)
(* Bounds of the model.                                                    *)
(***************************************************************************)
\* How many distinct interrupt vectors devices and timers raise.
NumVectors == 3
\* How many interrupts (device responses plus expired timers) one VM exit
\* can bring, and how many inject_interrupt calls are followed between drains.
MaxEvents == 2
\* How many bit positions of each half of a capability MSR are explored.
NumProbeBits == 2
\* How many VMCS regions the core allocates.
NumVmcs == 2
\* How many field accesses of one with_active_vmcs callback are followed.
MaxAccesses == 2

(***************************************************************************)
(* Words as bit sets.                                                      *)
(***************************************************************************)
WordBits == 0..63

\* The word holding the number n (0 <= n < 2^31).
Bits(n) == {i \in 0..30 : (n \div (2^i)) % 2 = 1}

\* x << s on a u64.
Shl(w, s) == {i + s : i \in w} \cap WordBits

\* x >> s on a u64.
Shr(w, s) == {i - s : i \in {j \in w : j >= s}}

\* !x on a u64.
BitNot(w) == WordBits \ w

\* The number a word below 2^31 holds.
RECURSIVE ToNat(_)
ToNat(w) ==
    IF w = {} THEN 0
    ELSE LET i == CHOOSE j \in w : \A k \in w : k <= j
         IN  2^i + ToNat(w \ {i})

(***************************************************************************)
(* Values the model draws its inputs from.                                 *)
(***************************************************************************)
\* 0x30, 0x21 and 0x40 are the vectors of the specification's scenarios,
\* 0x24 is the UART vector.
VectorPool == <<\h30, \h21, \h40, \h24, \h22>>
Vectors == {VectorPool[i] : i \in 1..NumVectors}

\* enum InjectedInterruptType and its #[repr(u8)] discriminants.
InjectedInterruptType ==
    {"ExternalInterrupt", "NonMaskableInterrupt", "HardwareException",
     "SoftwareInterrupt", "PrivilegedSoftwareException",
     "SoftwareException", "OtherEvent"}

\* Fault variant of KindCode: the discriminants an enum without explicit
\* values would get.
KindCodeSequential(kind) ==
    CASE kind = "ExternalInterrupt" -> 0
      [] kind = "NonMaskableInterrupt" -> 1
      [] kind = "HardwareException" -> 2
      [] kind = "SoftwareInterrupt" -> 3
      [] kind = "PrivilegedSoftwareException" -> 4
      [] kind = "SoftwareException" -> 5
      [] kind = "OtherEvent" -> 6

\* `kind as u64`.
KindCode(kind) ==
    CASE kind = "ExternalInterrupt" -> 0
      [] kind = "NonMaskableInterrupt" -> 2
      [] kind = "HardwareException" -> 3
      [] kind = "SoftwareInterrupt" -> 4
      [] kind = "PrivilegedSoftwareException" -> 5
      [] kind = "SoftwareException" -> 6
      [] kind = "OtherEvent" -> 7

\* CpuBasedCtrlFlags; bit 2 is the interrupt-window exiting control.
INTERRUPT_WINDOW_EXITING == {2}
TPR_SHADOW == {21}
UNCOND_IO_EXITING == {24}
ACTIVATE_MSR_BITMAP == {28}
ACTIVATE_SECONDARY_CONTROLS == {31}

\* The bits InterruptibilityState defines: STI blocking, MOV-SS blocking,
\* SMI blocking and NMI blocking.
InterruptibilityBits == {0, 1, 2, 3}

\* RFLAGS.IF, the 0b1000000000 of handle_vmexit.
RFLAGS_IF == {9}

\* Guest RFLAGS at a VM exit: 0x2 (the reset value), 0x202 (IF set) and
\* 0x502 (TF and DF, the neighbours of IF, set and IF clear).
GuestRflagsValues == {Bits(\h2), Bits(\h202), Bits(\h502)}

\* Guest interruptibility at a VM exit: none, blocking by STI, and a value
\* with a bit outside InterruptibilityState (bit 4).
GuestInterruptibilityValues == {{}, {0}, {4}}

\* Guest RIP at a VM exit and the length of the exiting instruction.
GuestRipValues == {Bits(\h1000)}
InstructionLens == {Bits(2), Bits(3)}

(***************************************************************************)
(* State.                                                                  *)
(***************************************************************************)
VARIABLES
    mode,       \* where the core is: "constructed", "guest", "host", "halted"
    pending,    \* VCpu.pending_interrupts, in key order
    vmcs,       \* the fields of the VCPU's VMCS the handler reads and writes
    serial,     \* whether the VM holds the physical serial device
    irqKind,    \* the injection kind the devices and timers of this run use
    last,       \* what the latest handle_vmexit call did
    injBase,    \* pending_interrupts at the latest drain
    injHist,    \* the inject_interrupt calls since the latest drain
    wf,         \* the latest write_with_fixed call
    hstate,     \* the handle state of every VMCS region
    vmx,        \* who holds the core's Vmx value
    current,    \* the core's current-VMCS pointer
    acc,        \* the latest field access through a handle
    vcall,      \* the with_active_vmcs or VCpu::new call being followed
    cpu,        \* the guest's registers, as GuestCpuState holds them
    apicBase,   \* the IA32_APIC_BASE MSR of the core
    emu,        \* the latest emulation that used the guest's registers
    owner,      \* for every VM, whether it holds the physical serial device
    queue,      \* for every VM, the messages sent to it and not yet received
    gsi,        \* the IOAPIC's mapping of GSI 4
    con         \* the latest console handover or IPC-vector exit

vcpuVars == <<mode, pending, vmcs, serial, irqKind, last>>
injVars == <<injBase, injHist>>
fixedVars == <<wf>>
handleVars == <<hstate, vmx, current, acc, vcall>>
emuVars == <<cpu, apicBase, emu>>
consoleVars == <<owner, queue, gsi, con>>
vars == <<mode, pending, vmcs, serial, irqKind, last, injBase, injHist, wf,
          hstate, vmx, current, acc, vcall, cpu, apicBase, emu, owner, queue,
          gsi, con>>

(***************************************************************************)
(* The pending-interrupt map: a BTreeMap<u8, InjectedInterruptType>, held  *)
(* as the sequence of its <<vector, kind>> entries in iteration order.     *)
(***************************************************************************)
\* Fault variant of InsertPending: entry(vector).or_insert(kind), which
\* keeps the entry a vector already has.
InsertPendingKeepFirst(p, vector, kind) ==
    IF \E i \in 1..Len(p) : p[i][1] = vector THEN p
    ELSE SelectSeq(p, LAMBDA e : e[1] < vector)
            \o << <<vector, kind>> >>
            \o SelectSeq(p, LAMBDA e : e[1] > vector)

\* BTreeMap::insert: the entry of the key is replaced, or a new entry is
\* placed at the key's position in key order.
InsertPending(p, vector, kind) ==
    SelectSeq(p, LAMBDA e : e[1] < vector)
        \o << <<vector, kind>> >>
        \o SelectSeq(p, LAMBDA e : e[1] > vector)

\* VCpu::inject_interrupt.
InjectInterrupt(p, vector, kind) == InsertPending(p, vector, kind)

\* Fault variants of PopFirst: pop_last, and a pop that takes the entry
\* after the first one out of the map as well.
PopLast(p) == [entry |-> p[Len(p)], rest |-> SubSeq(p, 1, Len(p) - 1)]
PopFirstDropping(p) ==
    [entry |-> Head(p), rest |-> IF Len(p) > 1 THEN Tail(Tail(p)) ELSE <<>>]

\* BTreeMap::pop_first on a non-empty map: the first entry in key order
\* and the map without it.
PopFirst(p) == [entry |-> Head(p), rest |-> Tail(p)]

\* BTreeMap::is_empty.
IsEmpty(p) == p = <<>>

\* The vectors that have an entry, and the entries of one vector.
PendingVectors(p) == {p[i][1] : i \in 1..Len(p)}
EntriesOf(p, vector) == SelectSeq(p, LAMBDA e : e[1] = vector)

(***************************************************************************)
(* write_with_fixed.                                                       *)
(***************************************************************************)
\* 0x00000000ffffffff
LowHalf == 0..31

\* Fault variant of VmcsWriteWithFixed: the halves of the MSR exchanged.
VmcsWriteWithFixedSwapped(value, fixed) ==
    LET low == Shr(fixed, 32)
        high == fixed \cap LowHalf
        required_value == (value \cap high) \cup low
    IN  IF (value \cap BitNot(required_value)) # {}
        THEN [ok |-> FALSE, required |-> required_value, wrote |-> FALSE]
        ELSE [ok |-> TRUE, required |-> required_value, wrote |-> TRUE]

\* vmcs_write_with_fixed(field, value, msr), with `fixed` the content of the
\* capability MSR: the outcome, the value handed to vmcs_write, and whether
\* vmcs_write was reached.
\* Fault variant of VmcsWriteWithFixed: vmcs_write is called before the
\* requested bits are checked.
VmcsWriteThenCheck(value, fixed) ==
    LET low == fixed \cap LowHalf
        high == Shr(fixed, 32)
        required_value == (value \cap high) \cup low
    IN  [ok |-> (value \cap BitNot(required_value)) = {},
         required |-> required_value, wrote |-> TRUE]

VmcsWriteWithFixed(value, fixed) ==
    LET low == fixed \cap LowHalf
        high == Shr(fixed, 32)
        required_value == (value \cap high) \cup low
    IN  IF (value \cap BitNot(required_value)) # {}
        THEN [ok |-> FALSE, required |-> required_value, wrote |-> FALSE]
        ELSE [ok |-> TRUE, required |-> required_value, wrote |-> TRUE]

\* IA32_VMX_PROCBASED_CTLS of the core: the low half names the controls
\* that must be 1, the high half those that may be 1.
ProcbasedCtlsMsr ==
    {1, 4, 5, 6, 8, 13, 14, 15, 16, 26} \cup Shl(LowHalf \ {0, 17, 18}, 32)

\* CpuBasedVmExecControl as initialize_ctrl_vmcs leaves it.
InitialCpuBasedCtl ==
    VmcsWriteWithFixed(
        UNCOND_IO_EXITING \cup TPR_SHADOW \cup ACTIVATE_MSR_BITMAP
            \cup ACTIVATE_SECONDARY_CONTROLS,
        ProcbasedCtlsMsr).required

(***************************************************************************)
(* The VMCS handles.  A record h holds                                     *)
(*   hstate   the state of every VMCS region: "Unallocated", "Inactive" (a *)
(*            Vmcs value), "Active" (owned by an ActiveVmcs), "TempActive" *)
(*            (borrowed by a TemporaryActiveVmcs), "Panicked"              *)
(*   vmx      where the core's Vmx value is: "none", "caller", "active"    *)
(*            (moved into an ActiveVmcs), "borrowed" (lent to a            *)
(*            TemporaryActiveVmcs)                                         *)
(*   current  the region the core's current-VMCS pointer names, 0 if none  *)
(***************************************************************************)
Regions == 1..NumVmcs

\* vmcs_activate: VMPTRLD makes the region current when it succeeds.
VmcsActivate(h, r, ok) == IF ok THEN [h EXCEPT !.current = r] ELSE h

\* vmcs_clear: after a successful VMCLEAR of the current region there is no
\* current VMCS.
VmcsClear(h, r, ok) ==
    IF ok /\ h.current = r THEN [h EXCEPT !.current = 0] ELSE h

\* Fault variant of Activate: the Vmx value is shared, not moved.
ActivateSharingVmx(h, r, ok) ==
    LET a == VmcsActivate(h, r, ok)
    IN  IF ok THEN [a EXCEPT !.hstate[r] = "Active"]
        ELSE [a EXCEPT !.hstate[r] = "Unallocated", !.vmx = "none"]

\* Vmcs::activate(self, vmx) and ActiveVmcs::new: the Vmcs and the Vmx are
\* moved into the handle; on an error both are dropped.
Activate(h, r, ok) ==
    LET a == VmcsActivate(h, r, ok)
    IN  IF ok THEN [a EXCEPT !.hstate[r] = "Active", !.vmx = "active"]
        ELSE [a EXCEPT !.hstate[r] = "Unallocated", !.vmx = "none"]

\* ActiveVmcs::deactivate(self): the Vmcs and the Vmx come back on success;
\* on an error the handle, consumed by the call, is dropped.
Deactivate(h, r, ok) ==
    LET c == VmcsClear(h, r, ok)
    IN  IF ok THEN [c EXCEPT !.hstate[r] = "Inactive", !.vmx = "caller"]
        ELSE [c EXCEPT !.hstate[r] = "Unallocated", !.vmx = "none"]

\* An ActiveVmcs going out of scope.  ActiveVmcs has no Drop: its Vmcs and
\* its Vmx are dropped and no VMCLEAR is issued.
ActiveDropped(h, r) == [h EXCEPT !.hstate[r] = "Unallocated", !.vmx = "none"]

\* TemporaryActiveVmcs::new(&mut vmcs, &mut vmx), the first step of
\* Vmcs::with_active_vmcs; on an error nothing stays borrowed.
TempNew(h, r, ok) ==
    LET a == VmcsActivate(h, r, ok)
    IN  IF ok THEN [a EXCEPT !.hstate[r] = "TempActive", !.vmx = "borrowed"]
        ELSE a

\* Fault variant of TempDrop: the borrow ends without a VMCLEAR.
TempDropNoClear(h, r, ok) ==
    [h EXCEPT !.hstate[r] = "Inactive", !.vmx = "caller"]

\* Drop for TemporaryActiveVmcs: vmcs_clear(..).expect(..), run when the
\* callback of with_active_vmcs has returned.
TempDrop(h, r, ok) ==
    LET c == VmcsClear(h, r, ok)
    IN  IF ok THEN [c EXCEPT !.hstate[r] = "Inactive", !.vmx = "caller"]
        ELSE [c EXCEPT !.hstate[r] = "Panicked"]

\* The field operations of the two handles.
FieldOps == {"read_field", "write_field", "write_with_fixed"}

(***************************************************************************)
(* handle_vmexit.  A call is threaded through a record st:                 *)
(*   res      "Ok" while the call runs on, "Err" once a `?` returned an    *)
(*            error, "Panic" once the handler panicked                     *)
(*   pending, vmcs, serial   the state the call has reached                *)
(*   writes   the VMCS writes issued so far, <<field, value>> in order     *)
(*   added    the vectors passed to inject_interrupt so far                *)
(*   eoi      how many EOIs the call has sent to the local APIC            *)
(*   drained  the device responses handled so far, in order                *)
(*   timers   "none" until expire_elapsed_timers is called, then "ok" or   *)
(*            "err"                                                        *)
(*   held     the guards on the VM's lock the core holds, oldest first     *)
(*   took     how many guards the call has taken                           *)
(* vmread and vmwrite act on the VCPU's own VMCS, which is current for the *)
(* life of the VCPU, and name fields every VMX processor has: they succeed.*)
(***************************************************************************)
VmcsWrite(st, field, value) ==
    [st EXCEPT !.vmcs = [@ EXCEPT ![field] = value],
               !.writes = Append(@, <<field, value>>)]

\* Fault variant of SkipEmulatedInstruction: the length is added twice.
SkipTwice(st) ==
    VmcsWrite(st, "GuestRip",
              Bits(ToNat(st.vmcs.GuestRip)
                       + 2 * ToNat(st.vmcs.VmExitInstructionLen)))

\* VCpu::skip_emulated_instruction.
SkipEmulatedInstruction(st) ==
    VmcsWrite(st, "GuestRip",
              Bits(ToNat(st.vmcs.GuestRip)
                       + ToNat(st.vmcs.VmExitInstructionLen)))

Fail(st) == [st EXCEPT !.res = "Err"]

\* Fault variant of Panic: the call runs on.
PanicIgnored(st) == st

Panic(st) == [st EXCEPT !.res = "Panic"]

\* self.vm.read() / self.vm.write(): the core takes a guard on the
\* VirtualMachine lock.
Lock(st, kind) == [st EXCEPT !.held = Append(@, kind), !.took = @ + 1]

\* Fault variant of DropGuard: the guard is leaked (core::mem::forget).
ForgetGuard(st) == st

\* The newest guard goes out of scope, at a drop(vm), at the end of its
\* block, or when a `?` returns out of it.
DropGuard(st) == [st EXCEPT !.held = SubSeq(@, 1, Len(@) - 1)]

\* The exits the processor can deliver.  ok: whether the emulation the exit
\* calls succeeds (RdMsr: whether RCX names IA32_APIC_BASE); sub: what an
\* external interrupt is (the UART vector, the IPC vector with the message
\* the channel holds, or another vector).
ExitInfos ==
    {[reason |-> r, ok |-> b, sub |-> "none"] :
        r \in {"RdMsr", "CrAccess", "CpuId", "IoInstruction", "EptViolation"},
        b \in BOOLEAN}
    \cup {[reason |-> r, ok |-> TRUE, sub |-> "none"] :
        r \in {"ApicAccess", "InterruptWindow", "Other"}}
    \cup {[reason |-> "ExternalInterrupt", ok |-> b, sub |-> s] :
        b \in BOOLEAN, s \in {"uart", "ipc_cancel"}}
    \cup {[reason |-> "ExternalInterrupt", ok |-> TRUE, sub |-> s] :
        s \in {"ipc_none", "ipc_grant", "other"}}

\* The `match info.vector` of an external interrupt.  handle_uart_keypress
\* dispatches the key to the serial device, which can fail, when the VM
\* holds one, and does nothing otherwise; recv_vm_msg().ok_or_else(..)?
\* fails on an empty queue.
HandleVector(st, exit) ==
    CASE exit.sub = "uart" ->
            LET w == Lock(DropGuard(Lock(st, "read")), "write")
            IN  DropGuard(IF exit.ok \/ ~st.serial THEN w ELSE Fail(w))
      [] exit.sub = "ipc_none" -> Fail(st)
      [] exit.sub = "ipc_grant" ->
            DropGuard([Lock(st, "write") EXCEPT !.serial = TRUE])
      [] exit.sub = "ipc_cancel" -> IF exit.ok THEN st ELSE Fail(st)
      [] OTHER -> st

\* emulate_portio: the write guard taken at its start is held until it
\* returns, with Ok or through a `?`.
PortioUnderLock(st, exit) ==
    LET w == Lock(st, "write")
    IN  DropGuard(IF exit.ok THEN w ELSE Fail(w))

\* apic::get_local_apic_mut().eoi(), the statement after the match: reached
\* when no `?` of the match returned.
SendEoi(st) == IF st.res = "Ok" THEN [st EXCEPT !.eoi = @ + 1] ELSE st

\* Fault variant of Dispatch: the instruction is skipped on an interrupt
\* window and on an external interrupt as well.
DispatchSkippingAll(st, exit) ==
    CASE exit.reason = "RdMsr" ->
            IF exit.ok THEN SkipEmulatedInstruction(st) ELSE Panic(st)
      [] exit.reason = "ApicAccess" -> SkipEmulatedInstruction(st)
      [] exit.reason \in {"CrAccess", "CpuId", "EptViolation"} ->
            IF exit.ok THEN SkipEmulatedInstruction(st) ELSE Fail(st)
      [] exit.reason = "IoInstruction" ->
            LET e == PortioUnderLock(st, exit)
            IN  IF e.res = "Ok" THEN SkipEmulatedInstruction(e) ELSE e
      [] exit.reason = "InterruptWindow" -> SkipEmulatedInstruction(st)
      [] exit.reason = "ExternalInterrupt" ->
            SkipEmulatedInstruction(SendEoi(HandleVector(st, exit)))
      [] OTHER -> Panic(st)

\* The match on exit.info of handle_vmexit_impl.
Dispatch(st, exit) ==
    CASE exit.reason = "RdMsr" ->
            IF exit.ok THEN SkipEmulatedInstruction(st) ELSE Panic(st)
      [] exit.reason = "ApicAccess" -> SkipEmulatedInstruction(st)
      [] exit.reason \in {"CrAccess", "CpuId", "EptViolation"} ->
            IF exit.ok THEN SkipEmulatedInstruction(st) ELSE Fail(st)
      [] exit.reason = "IoInstruction" ->
            LET e == PortioUnderLock(st, exit)
            IN  IF e.res = "Ok" THEN SkipEmulatedInstruction(e) ELSE e
      [] exit.reason = "InterruptWindow" -> st
      [] exit.reason = "ExternalInterrupt" -> SendEoi(HandleVector(st, exit))
      [] OTHER -> Panic(st)

\* Whether the handler of the exit hands device responses back: port I/O,
\* MMIO, and a UART keypress of a VM that holds the serial device.
Responds(exit, hasSerial) ==
    /\ exit.ok
    /\ \/ exit.reason \in {"IoInstruction", "EptViolation"}
       \/ exit.reason = "ExternalInterrupt" /\ exit.sub = "uart" /\ hasSerial

\* DeviceEventResponse.
InterruptResponse(vector, kind) ==
    [type |-> "Interrupt", vector |-> vector, kind |-> kind]
NextConsole == [type |-> "NextConsole", vector |-> 0, kind |-> "none"]
GuestUartTransmitted ==
    [type |-> "GuestUartTransmitted", vector |-> 0, kind |-> "none"]

\* One response of the drain loop of handle_vmexit_impl.  console: how the
\* handover goes ("ok", "send_failed", "map_failed").
HandleResponse(st, r, console) ==
    CASE r.type = "Interrupt" ->
            [st EXCEPT !.pending = InjectInterrupt(@, r.vector, r.kind),
                       !.added = @ \cup {r.vector}]
      [] r.type = "NextConsole" ->
            LET w == Lock(st, "write")
                taken == DropGuard([w EXCEPT !.serial = FALSE])
            IN  IF ~st.serial THEN DropGuard(Fail(w))
                ELSE IF console = "ok" THEN taken
                ELSE Fail(taken)
      [] OTHER -> DropGuard(Lock(st, "read"))

\* Fault variant of DrainResponses: the newest response first.
RECURSIVE DrainNewestFirst(_, _, _)
DrainNewestFirst(st, responses, console) ==
    IF responses = <<>> \/ st.res # "Ok" THEN st
    ELSE LET r == responses[Len(responses)]
         IN  DrainNewestFirst(
                HandleResponse([st EXCEPT !.drained = Append(@, r)], r, console),
                SubSeq(responses, 1, Len(responses) - 1), console)

\* `for response in responses`: in order, until one fails.
RECURSIVE DrainResponses(_, _, _)
DrainResponses(st, responses, console) ==
    IF responses = <<>> \/ st.res # "Ok" THEN st
    ELSE DrainResponses(
            HandleResponse([st EXCEPT !.drained = Append(@, Head(responses))],
                           Head(responses), console),
            Tail(responses), console)

\* handle_vmexit_impl.
HandleVmexitImpl(st, exit, responses, console) ==
    LET d == Dispatch(st, exit)
    IN  IF d.res # "Ok" THEN d ELSE DrainResponses(d, responses, console)

\* `for (vec, kind) in expire_elapsed_timers()?`.
RECURSIVE InjectTimers(_, _)
InjectTimers(st, fired) ==
    IF fired = <<>> THEN st
    ELSE InjectTimers(
            [st EXCEPT !.pending = InjectInterrupt(@, Head(fired)[1], Head(fired)[2]),
                       !.added = @ \cup {Head(fired)[1]}],
            Tail(fired))

\* Fault variant of FromBitsOk: from_bits_truncate, which never fails.
FromBitsTruncate(interruptibility) == TRUE

\* InterruptibilityState::from_bits(..).ok_or_else(..): None, and so an
\* error, when a bit outside the defined ones is set.
FromBitsOk(interruptibility) == interruptibility \subseteq InterruptibilityBits

\* Fault variant of GuestNotInterruptible: `&&` in place of `||`.
GuestNotInterruptibleBoth(interruptibility, rflags) ==
    interruptibility # {} /\ (rflags \cap RFLAGS_IF) = {}

\* `!interruptibility.is_empty() || rflags & 0b1000000000 == 0`.
GuestNotInterruptible(interruptibility, rflags) ==
    interruptibility # {} \/ (rflags \cap RFLAGS_IF) = {}

\* `0x80000000 | pending.0 as u64 | ((pending.1 as u64) << 8)`.
IntrInfo(entry) ==
    {31} \cup Bits(entry[1]) \cup Shl(Bits(KindCode(entry[2])), 8)

\* Fault variant of PopAndInject: the entry is popped and the field is not
\* written.
PopWithoutInject(st) ==
    IF IsEmpty(st.pending) THEN st
    ELSE [st EXCEPT !.pending = PopFirst(st.pending).rest]

\* Fault variant of PopAndInject: `while let Some(pending) = ...`, which
\* writes the field for every pending entry.
RECURSIVE PopAndInjectAll(_)
PopAndInjectAll(st) ==
    IF IsEmpty(st.pending) THEN st
    ELSE LET popped == PopFirst(st.pending)
         IN  PopAndInjectAll(
                VmcsWrite([st EXCEPT !.pending = popped.rest],
                          "VmEntryIntrInfoField", IntrInfo(popped.entry)))

\* `if let Some(pending) = self.pending_interrupts.pop_first() { ... }`.
PopAndInject(st) ==
    IF IsEmpty(st.pending) THEN st
    ELSE LET popped == PopFirst(st.pending)
         IN  VmcsWrite([st EXCEPT !.pending = popped.rest],
                       "VmEntryIntrInfoField", IntrInfo(popped.entry))

\* Fault variant of WindowAfterInjection: the control is set whatever is
\* still pending.
WindowAlwaysSet(st, field) ==
    VmcsWrite(st, "CpuBasedVmExecControl",
              field \cup INTERRUPT_WINDOW_EXITING)

\* Fault variant of WindowAfterInjection: the control is cleared whatever
\* is still pending.
WindowAlwaysCleared(st, field) ==
    VmcsWrite(st, "CpuBasedVmExecControl",
              field \cap BitNot(INTERRUPT_WINDOW_EXITING))

\* Fault variant of WindowAfterInjection: the flag alone is written, not
\* the field read before with the flag changed.
WindowFromFlagOnly(st, field) ==
    IF ~IsEmpty(st.pending)
    THEN VmcsWrite(st, "CpuBasedVmExecControl", INTERRUPT_WINDOW_EXITING)
    ELSE VmcsWrite(st, "CpuBasedVmExecControl", {})

\* The last write of handle_vmexit: the window control after the injection.
WindowAfterInjection(st, field) ==
    IF ~IsEmpty(st.pending)
    THEN VmcsWrite(st, "CpuBasedVmExecControl",
                   field \cup INTERRUPT_WINDOW_EXITING)
    ELSE VmcsWrite(st, "CpuBasedVmExecControl",
                   field \cap BitNot(INTERRUPT_WINDOW_EXITING))

\* handle_vmexit from `if self.pending_interrupts.is_empty()` to its end.
InjectPending(st) ==
    IF IsEmpty(st.pending) THEN st
    ELSE IF ~FromBitsOk(st.vmcs.GuestInterruptibilityInfo) THEN Fail(st)
    ELSE LET interruptibility == st.vmcs.GuestInterruptibilityInfo
             rflags == st.vmcs.GuestRflags
             field == st.vmcs.CpuBasedVmExecControl
         IN  IF GuestNotInterruptible(interruptibility, rflags)
             THEN VmcsWrite(st, "CpuBasedVmExecControl",
                            field \cup INTERRUPT_WINDOW_EXITING)
             ELSE WindowAfterInjection(
                    PopAndInject(
                        VmcsWrite(st, "CpuBasedVmExecControl",
                                  field \cap BitNot(INTERRUPT_WINDOW_EXITING))),
                    field)

\* What expire_elapsed_timers returns: an error, or the (vector, kind) of
\* every elapsed timer.
TimersOk(fired) == [ok |-> TRUE, fired |-> fired]
TimersErr == [ok |-> FALSE, fired |-> <<>>]

\* handle_vmexit.  post: whether the call reached the check of the pending
\* set; merged: the pending set at that check.
HandleVmexit(st, exit, responses, console, timers) ==
    LET d == HandleVmexitImpl(st, exit, responses, console)
    IN  IF d.res # "Ok" THEN d
        ELSE IF ~timers.ok THEN Fail([d EXCEPT !.timers = "err"])
        ELSE LET t == InjectTimers([d EXCEPT !.timers = "ok"], timers.fired)
             IN  InjectPending([t EXCEPT !.post = TRUE, !.merged = t.pending])

(***************************************************************************)
(* Every part of the model has a specification of its own.  These are the  *)
(* values the variables of a part keep while another part runs.            *)
(***************************************************************************)
\* last: the exit (its reason, whether its emulation succeeds, what an
\* external interrupt is), the outcome ("Ok", "Err", "Panic"), the pending
\* set, GuestRip and the serial ownership when the call began, the device
\* responses the exit enqueued and the timers that had elapsed, and what
\* the call's record st held at its end.
NoCall ==
    [exit |-> "None", ok |-> TRUE, sub |-> "none", res |-> "None",
     before |-> <<>>, rip |-> {}, hadSerial |-> FALSE, responses |-> <<>>,
     fired |-> <<>>, post |-> FALSE, merged |-> <<>>, added |-> {},
     writes |-> <<>>, eoi |-> 0, drained |-> <<>>, timers |-> "none",
     held |-> <<>>, took |-> 0]

\* wf: the arguments of the call, the content of the field, and once the
\* call is made its outcome, the content of the field before it and how
\* many vmwrite instructions it issued.
NoWrite(value, fixed, content) ==
    [called |-> FALSE, value |-> value, fixed |-> fixed, ok |-> TRUE,
     ret |-> {}, before |-> content, field |-> content, writes |-> 0]

\* acc: the operation, the region of the handle it went through, and the
\* region that was current when it executed.
NoAccess == [op |-> "none", via |-> 0, on |-> 0]

\* The fields VCpu::new leaves in the VMCS (initialize_guest_vmcs,
\* initialize_ctrl_vmcs); construction writes no VM-entry interruption
\* information.
ConstructedVmcs ==
    [CpuBasedVmExecControl |-> InitialCpuBasedCtl,
     VmEntryIntrInfoField |-> {},
     GuestInterruptibilityInfo |-> {},
     GuestRflags |-> Bits(\h2),
     GuestRip |-> Bits(\hFFF0),
     VmExitInstructionLen |-> {}]

\* After VCpu::new: nothing pending, the VMCS programmed, not yet launched.
InitVcpu ==
    /\ mode = "constructed"
    /\ pending = <<>>
    /\ vmcs = ConstructedVmcs
    /\ serial \in BOOLEAN
    /\ last = NoCall

IdleVcpu ==
    /\ mode = "constructed"
    /\ vmcs = ConstructedVmcs
    /\ serial = FALSE
    /\ irqKind = "ExternalInterrupt"
    /\ last = NoCall

IdleInject == injBase = <<>> /\ injHist = <<>>

IdleFixed == wf = NoWrite({}, {}, {})

\* The VMs of the machine: the ids below vm::max_vm_id().
MaxVmId == 3
VmIds == 0 .. MaxVmId - 1

\* interrupt::UART_VECTOR, and the mapping of GSI 4 the boot programs: the
\* UART's vector to the first VM.
UART_VECTOR == \h24
BootGsi == [gsi_no |-> 4, vector |-> UART_VECTOR, dest |-> 0]

\* cpu: the registers of GuestCpuState the emulation reads or writes, and
\* rbx for the others.
NoCpu ==
    [rax |-> {}, rbx |-> {}, rcx |-> {}, rdx |-> {}, rsi |-> {}, rdi |-> {}]

\* emu: the emulation ("rdmsr", "portio"), the registers when it began, its
\* outcome ("Ok" or the error), and for port I/O the exit information
\* (port, size, input, string), the on_port_write calls the device
\* received, the values its on_port_read calls returned, and the bytes
\* written to guest memory.
NoEmulation ==
    [op |-> "none", before |-> NoCpu, res |-> "None", port |-> 0, size |-> 0,
     input |-> FALSE, string |-> FALSE, received |-> <<>>, reads |-> <<>>,
     written |-> <<>>]

\* con: the operation ("NextConsole", "ipc"), the VM whose VCPU ran it,
\* its outcome, whether the VM held the serial device before, the messages
\* it sent, each <<destination, message>>, the message it received, and
\* whether a GrantConsole was waiting for the VM.
NoConsoleCall ==
    [op |-> "none", vm |-> 0, res |-> "None", hadSerial |-> FALSE,
     sent |-> <<>>, msg |-> "none", granted |-> FALSE]

IdleEmu == cpu = NoCpu /\ apicBase = {} /\ emu = NoEmulation

IdleConsole ==
    /\ owner = [v \in VmIds |-> FALSE]
    /\ queue = [v \in VmIds |-> <<>>]
    /\ gsi = BootGsi
    /\ con = NoConsoleCall

\* vcall: the call, the region it is about, how far it is ("running", or
\* how it ended), how many fields VCpu::new has programmed, and the VMX
\* operations the call has issued, in order.
NoVmcsCall ==
    [op |-> "none", region |-> 0, status |-> "none", step |-> 0, log |-> <<>>]

\* Before the core has enabled VMX or allocated a VMCS.
InitHandles ==
    /\ hstate = [r \in Regions |-> "Unallocated"]
    /\ vmx = "none"
    /\ current = 0
    /\ acc = NoAccess
    /\ vcall = NoVmcsCall

(***************************************************************************)
(* The VM-entry / VM-exit loop of one VCPU.                                *)
(***************************************************************************)
Init ==
    /\ InitVcpu
    /\ irqKind = "ExternalInterrupt"
    /\ IdleInject /\ IdleFixed /\ InitHandles /\ IdleEmu /\ IdleConsole

\* VCpu::launch, and the VM-resume of the exit trampoline after a
\* handle_vmexit that returned Ok: the guest runs.  The processor takes the
\* event of the VM-entry interruption information; the guest-state fields
\* are rewritten by the processor at the next exit before anything reads
\* them, and are held at their constructed values meanwhile.
VmEntry ==
    /\ mode \in {"constructed", "host"}
    /\ mode' = "guest"
    /\ vmcs' = [ConstructedVmcs EXCEPT
                    !.CpuBasedVmExecControl = vmcs.CpuBasedVmExecControl]
    /\ last' = NoCall
    /\ UNCHANGED <<pending, serial, irqKind, injVars, fixedVars, handleVars,
                   emuVars, consoleVars>>

\* Sequences over S of length at most n.
SeqsUpTo(S, n) == UNION {[1..m -> S] : m \in 0..n}

\* The interrupts the timers of a run raise, by the kind the run uses: what
\* expire_elapsed_timers can return when it succeeds.
TimerSeqs ==
    [k \in InjectedInterruptType |-> SeqsUpTo(Vectors \X {k}, MaxEvents)]

\* The responses a device can enqueue, by the kind the run uses.
ResponseSeqs ==
    [k \in InjectedInterruptType |->
        SeqsUpTo({InterruptResponse(v, k) : v \in Vectors}
                     \cup {NextConsole, GuestUartTransmitted}, MaxEvents)]

\* The responses the handler of an exit can enqueue.
ResponsesOf(exit, hasSerial, k) ==
    IF Responds(exit, hasSerial) THEN ResponseSeqs[k] ELSE {<<>>}

\* How a console handover among the responses can go.
ConsoleOutcomes(responses) ==
    IF \E i \in 1..Len(responses) : responses[i] = NextConsole
    THEN {"ok", "send_failed", "map_failed"}
    ELSE {"ok"}

\* What the timer wheel can return, the exit bringing at most MaxEvents
\* interrupts in all.
TimerResults(responses, k) ==
    {TimersErr}
        \cup {TimersOk(f) : f \in {g \in TimerSeqs[k] :
                                    Len(g) + Len(responses) <= MaxEvents}}

\* The instruction lengths the processor can report for an exit.
LensOf(exit) ==
    IF exit.reason \in {"RdMsr", "ApicAccess", "CrAccess", "CpuId",
                        "IoInstruction", "EptViolation"}
    THEN InstructionLens
    ELSE {{}}

\* The guest state the processor saves into the VMCS at a VM exit; it also
\* clears the valid bit of the VM-entry interruption information.
ExitVmcs(v, rflags, interruptibility, rip, len) ==
    [v EXCEPT !.GuestRflags = rflags,
              !.GuestInterruptibilityInfo = interruptibility,
              !.GuestRip = rip,
              !.VmExitInstructionLen = len,
              !.VmEntryIntrInfoField = @ \ {31}]

\* One VM exit with a reason among `exits`: the trampoline calls
\* handle_vmexit(guest_cpu, exit).  An error or a panic of the handler is
\* fatal for the core.
HandleExit(exits) ==
    /\ mode = "guest"
    /\ \E exit \in exits :
       \E rflags \in GuestRflagsValues :
       \E interruptibility \in GuestInterruptibilityValues :
       \E rip \in GuestRipValues :
       \E len \in LensOf(exit) :
       \E responses \in ResponsesOf(exit, serial, irqKind) :
       \E console \in ConsoleOutcomes(responses) :
       \E timers \in TimerResults(responses, irqKind) :
       \E r \in {HandleVmexit(
                    [res |-> "Ok", pending |-> pending, serial |-> serial,
                     vmcs |-> ExitVmcs(vmcs, rflags, interruptibility, rip, len),
                     writes |-> <<>>, added |-> {}, post |-> FALSE,
                     merged |-> <<>>, eoi |-> 0, drained |-> <<>>,
                     timers |-> "none", held |-> <<>>, took |-> 0],
                    exit, responses, console, timers)} :
          /\ pending' = r.pending
          /\ vmcs' = r.vmcs
          /\ serial' = r.serial
          /\ last' = [exit |-> exit.reason, ok |-> exit.ok, sub |-> exit.sub,
                      res |-> r.res, before |-> pending, rip |-> rip,
                      hadSerial |-> serial, responses |-> responses,
                      fired |-> timers.fired, post |-> r.post,
                      merged |-> r.merged, added |-> r.added,
                      writes |-> r.writes, eoi |-> r.eoi,
                      drained |-> r.drained, timers |-> r.timers,
                      held |-> r.held, took |-> r.took]
          /\ mode' = IF r.res = "Ok" THEN "host" ELSE "halted"
    /\ UNCHANGED <<irqKind, injVars, fixedVars, handleVars, consoleVars>>

\* A VM exit followed without the guest's registers.
VmExitOn(exits) == HandleExit(exits) /\ UNCHANGED emuVars

VmExit == VmExitOn(ExitInfos)

Next == VmEntry \/ VmExit

Spec == Init /\ [][Next]_vars

(***************************************************************************)
(* The exit loop over every injection kind, on the exits whose dispatch    *)
(* does nothing but let the timers expire: an interrupt window, and an     *)
(* external interrupt that is neither the UART's nor the IPC vector.       *)
(***************************************************************************)
TimerExits ==
    {e \in ExitInfos :
        \/ e.reason = "InterruptWindow"
        \/ e.reason = "ExternalInterrupt" /\ e.sub = "other"}

InitKinds ==
    /\ InitVcpu
    /\ irqKind \in InjectedInterruptType
    /\ IdleInject /\ IdleFixed /\ InitHandles /\ IdleEmu /\ IdleConsole

VmExitTimers == VmExitOn(TimerExits)

NextKinds == VmEntry \/ VmExitTimers

SpecKinds == InitKinds /\ [][NextKinds]_vars

(***************************************************************************)
(* The exit loop under fairness, on the exits that bring interrupts        *)
(* without failing: those above and port I/O a device answers.             *)
(***************************************************************************)
InjectionExits ==
    TimerExits \cup {e \in ExitInfos : e.reason = "IoInstruction" /\ e.ok}

VmExitInjecting == VmExitOn(InjectionExits)

NextLive == VmEntry \/ VmExitInjecting

\* The trampoline re-enters the guest after every Ok return.  That the
\* processor keeps delivering exits is a hypothesis of the properties.
SpecLive ==
    /\ Init
    /\ [][NextLive]_vars
    /\ WF_vars(VmEntry)

(***************************************************************************)
(* inject_interrupt on its own: calls with two kinds, and the removal of   *)
(* the first entry as the injection does it.                               *)
(***************************************************************************)
InjectKinds == {"ExternalInterrupt", "NonMaskableInterrupt"}

InitInject ==
    /\ pending = <<>>
    /\ IdleVcpu /\ IdleInject /\ IdleFixed /\ InitHandles
    /\ IdleEmu /\ IdleConsole

CallInjectInterrupt ==
    /\ Len(injHist) < MaxEvents
    /\ \E vector \in Vectors, kind \in InjectKinds :
          /\ pending' = InjectInterrupt(pending, vector, kind)
          /\ injHist' = Append(injHist, <<vector, kind>>)
    /\ UNCHANGED <<injBase, mode, vmcs, serial, irqKind, last,
                   fixedVars, handleVars, emuVars, consoleVars>>

DrainOne ==
    /\ ~IsEmpty(pending)
    /\ pending' = PopFirst(pending).rest
    /\ injBase' = pending'
    /\ injHist' = <<>>
    /\ UNCHANGED <<mode, vmcs, serial, irqKind, last, fixedVars, handleVars,
                   emuVars, consoleVars>>

NextInject == CallInjectInterrupt \/ DrainOne

SpecInject == InitInject /\ [][NextInject]_vars

(***************************************************************************)
(* write_with_fixed on its own: one call on an active VMCS, for every      *)
(* value and capability MSR over the probed bit positions.                 *)
(***************************************************************************)
\* Bit positions of the low half of the MSR; position p + 32 of the high
\* half says whether control p may be 1.
ProbePool == <<2, 31, 21, 0>>
ProbeBits == {ProbePool[i] : i \in 1..NumProbeBits}
ProbeValues == SUBSET (ProbeBits \cup {ProbePool[1] + 32})
ProbeMsrs == SUBSET (ProbeBits \cup {p + 32 : p \in ProbeBits})
ProbeContents == {{}, ProbeBits}

InitFixed ==
    /\ \E value \in ProbeValues, fixed \in ProbeMsrs, content \in ProbeContents :
          wf = NoWrite(value, fixed, content)
    /\ pending = <<>>
    /\ IdleVcpu /\ IdleInject /\ InitHandles /\ IdleEmu /\ IdleConsole

\* ActiveVmcs::write_with_fixed / TemporaryActiveVmcs::write_with_fixed:
\* vmcs_write_with_fixed, whose vmcs_write stores the value on success.
WriteWithFixed ==
    /\ ~wf.called
    /\ LET r == VmcsWriteWithFixed(wf.value, wf.fixed)
       IN  wf' = [wf EXCEPT !.called = TRUE,
                            !.ok = r.ok,
                            !.ret = IF r.ok THEN r.required ELSE {},
                            !.field = IF r.wrote THEN r.required ELSE @,
                            !.writes = IF r.wrote THEN 1 ELSE 0]
    /\ UNCHANGED <<vcpuVars, injVars, handleVars, emuVars, consoleVars>>

NextFixed == WriteWithFixed

SpecFixed == InitFixed /\ [][NextFixed]_vars

(***************************************************************************)
(* The VMCS handles of one core: every interleaving of the operations the  *)
(* owner of the values can call.                                           *)
(***************************************************************************)
HandleState == [hstate |-> hstate, vmx |-> vmx, current |-> current]

SetHandles(h) ==
    /\ hstate' = h.hstate
    /\ vmx' = h.vmx
    /\ current' = h.current

InitVmcs ==
    /\ pending = <<>>
    /\ IdleVcpu /\ IdleInject /\ IdleFixed /\ InitHandles
    /\ IdleEmu /\ IdleConsole

\* A call that has ended is described by vcall until the next step.
CallGoesOn == vcall' = IF vcall.status = "running" THEN vcall ELSE NoVmcsCall

\* How many times the call issued an operation.
Issued(log, what) == Len(SelectSeq(log, LAMBDA x : x = what))

\* Vmx::enable: VMXON, which fails on a core that is in VMX operation and
\* leaves the core without a current VMCS.
VmxEnable ==
    /\ vmx = "none"
    /\ SetHandles([HandleState EXCEPT !.vmx = "caller", !.current = 0])
    /\ CallGoesOn
    /\ UNCHANGED <<acc, vcpuVars, injVars, fixedVars, emuVars, consoleVars>>

\* Vmcs::new: a frame is allocated.
VmcsNew ==
    /\ \E r \in Regions :
          /\ hstate[r] = "Unallocated"
          /\ SetHandles([HandleState EXCEPT !.hstate[r] = "Inactive"])
    /\ CallGoesOn
    /\ UNCHANGED <<acc, vcpuVars, injVars, fixedVars, emuVars, consoleVars>>

\* A Vmcs value going out of scope: its frame is released.
VmcsDropped ==
    /\ \E r \in Regions :
          /\ hstate[r] = "Inactive"
          /\ SetHandles([HandleState EXCEPT !.hstate[r] = "Unallocated"])
    /\ CallGoesOn
    /\ UNCHANGED <<acc, vcpuVars, injVars, fixedVars, emuVars, consoleVars>>

CallActivate ==
    /\ vmx = "caller"
    /\ \E r \in Regions, ok \in BOOLEAN :
          /\ hstate[r] = "Inactive"
          /\ SetHandles(Activate(HandleState, r, ok))
    /\ CallGoesOn
    /\ UNCHANGED <<acc, vcpuVars, injVars, fixedVars, emuVars, consoleVars>>

CallDeactivate ==
    /\ \E r \in Regions, ok \in BOOLEAN :
          /\ hstate[r] = "Active"
          /\ SetHandles(Deactivate(HandleState, r, ok))
    /\ CallGoesOn
    /\ UNCHANGED <<acc, vcpuVars, injVars, fixedVars, emuVars, consoleVars>>

DropActive ==
    /\ \E r \in Regions :
          /\ hstate[r] = "Active"
          /\ SetHandles(ActiveDropped(HandleState, r))
    /\ CallGoesOn
    /\ UNCHANGED <<acc, vcpuVars, injVars, fixedVars, emuVars, consoleVars>>

\* Vmcs::with_active_vmcs up to the call of the callback; when
\* TemporaryActiveVmcs::new fails the `?` returns and the callback is not
\* called.
WithActiveVmcsBegin ==
    /\ vmx = "caller"
    /\ \E r \in Regions, ok \in BOOLEAN :
          /\ hstate[r] = "Inactive"
          /\ SetHandles(TempNew(HandleState, r, ok))
          /\ vcall' = [op |-> "with_active_vmcs", region |-> r,
                       status |-> IF ok THEN "running" ELSE "not_activated",
                       step |-> 0, log |-> <<"activate">>]
    /\ UNCHANGED <<acc, vcpuVars, injVars, fixedVars, emuVars, consoleVars>>

\* Vmcs::with_active_vmcs from the return of the callback, Ok or Err: the
\* handle the callback was given is dropped.
WithActiveVmcsEnd ==
    /\ \E r \in Regions, ok \in BOOLEAN, cb \in {"returned_ok", "returned_err"} :
          /\ hstate[r] = "TempActive"
          /\ SetHandles(TempDrop(HandleState, r, ok))
          /\ vcall' = [vcall EXCEPT !.status = IF ok THEN cb ELSE "panicked",
                                    !.log = Append(@, "clear")]
    /\ UNCHANGED <<acc, vcpuVars, injVars, fixedVars, emuVars, consoleVars>>

\* read_field, write_field or write_with_fixed through the handle of a
\* region: VMREAD and VMWRITE act on the core's current VMCS.
FieldAccess ==
    /\ \E r \in Regions, op \in FieldOps :
          /\ hstate[r] \in {"Active", "TempActive"}
          /\ acc' = [op |-> op, via |-> r, on |-> current]
          /\ IF hstate[r] = "TempActive"
             THEN /\ Issued(vcall.log, "access") < MaxAccesses
                  /\ vcall' = [vcall EXCEPT !.log = Append(@, "access")]
             ELSE CallGoesOn
    /\ UNCHANGED <<hstate, vmx, current, vcpuVars, injVars, fixedVars, emuVars, consoleVars>>

NextVmcs ==
    \/ VmxEnable
    \/ VmcsNew
    \/ VmcsDropped
    \/ CallActivate
    \/ CallDeactivate
    \/ DropActive
    \/ WithActiveVmcsBegin
    \/ WithActiveVmcsEnd
    \/ FieldAccess

SpecVmcs == InitVmcs /\ [][NextVmcs]_vars

(***************************************************************************)
(* VCpu::new, one fallible step at a time.  A step that fails returns its  *)
(* error with `?` and the values built so far are dropped.                 *)
(***************************************************************************)
\* The `?` of the field accesses after the activation: the two write_field
\* of VCpu::new, then those of initialize_host_vmcs, initialize_guest_vmcs
\* and initialize_ctrl_vmcs.
ProgrammingSteps == <<2, 20, 52, 12>>
LastStep ==
    ProgrammingSteps[1] + ProgrammingSteps[2] + ProgrammingSteps[3]
        + ProgrammingSteps[4]

InitNew ==
    /\ pending = <<>>
    /\ IdleVcpu /\ IdleInject /\ IdleFixed /\ IdleEmu /\ IdleConsole
    /\ hstate = [r \in Regions |-> "Unallocated"]
    /\ vmx = "none"
    /\ current = 0
    /\ acc = NoAccess
    /\ vcall = [NoVmcsCall EXCEPT !.op = "VCpu::new", !.status = "start"]

\* vmx::Vmx::enable()?
NewEnable ==
    /\ vcall.op = "VCpu::new" /\ vcall.status = "start"
    /\ \E ok \in BOOLEAN :
          IF ok
          THEN /\ SetHandles([HandleState EXCEPT !.vmx = "caller",
                                                 !.current = 0])
               /\ vcall' = [vcall EXCEPT !.status = "enabled"]
          ELSE /\ vcall' = [vcall EXCEPT !.status = "not_enabled"]
               /\ UNCHANGED <<hstate, vmx, current>>
    /\ UNCHANGED <<acc, vcpuVars, injVars, fixedVars, emuVars, consoleVars>>

\* vmcs::Vmcs::new()?: on an error the Vmx is dropped.
NewAllocate ==
    /\ vcall.op = "VCpu::new" /\ vcall.status = "enabled"
    /\ \E r \in Regions, ok \in BOOLEAN :
          IF ok
          THEN /\ SetHandles([HandleState EXCEPT !.hstate[r] = "Inactive"])
               /\ vcall' = [vcall EXCEPT !.status = "allocated",
                                         !.region = r]
          ELSE /\ SetHandles([HandleState EXCEPT !.vmx = "none"])
               /\ vcall' = [vcall EXCEPT !.status = "not_allocated"]
    /\ UNCHANGED <<acc, vcpuVars, injVars, fixedVars, emuVars, consoleVars>>

\* .activate(vmx)?
NewActivate ==
    /\ vcall.op = "VCpu::new" /\ vcall.status = "allocated"
    /\ \E ok \in BOOLEAN :
          /\ SetHandles(Activate(HandleState, vcall.region, ok))
          /\ vcall' = [vcall EXCEPT
                          !.status = IF ok THEN "running" ELSE "not_activated",
                          !.log = Append(@, "activate")]
    /\ UNCHANGED <<acc, vcpuVars, injVars, fixedVars, emuVars, consoleVars>>

\* One write_field, read_field or write_with_fixed of the construction.  On
\* an error the VCpu, and with it the ActiveVmcs, is dropped.
NewProgram ==
    /\ vcall.op = "VCpu::new" /\ vcall.status = "running"
    /\ \E ok \in BOOLEAN :
          IF ok
          THEN /\ vcall' = [vcall EXCEPT
                               !.step = @ + 1,
                               !.status = IF vcall.step + 1 = LastStep
                                          THEN "constructed" ELSE "running"]
               /\ UNCHANGED <<hstate, vmx, current>>
          ELSE /\ SetHandles(ActiveDropped(HandleState, vcall.region))
               /\ vcall' = [vcall EXCEPT !.status = "failed"]
    /\ acc' = [op |-> "write_field", via |-> vcall.region, on |-> current]
    /\ UNCHANGED <<vcpuVars, injVars, fixedVars, emuVars, consoleVars>>

NextNew == NewEnable \/ NewAllocate \/ NewActivate \/ NewProgram

SpecNew == InitNew /\ [][NextNew]_vars

(***************************************************************************)
(* The guest state VCpu::new programs: initialize_guest_vmcs, then          *)
(* initialize_ctrl_vmcs, on the VMCS the construction has activated.        *)
(***************************************************************************)
\* Fault variant of GuestCr0Of: paging is left as the MSR has it.
GuestCr0KeepingPg(cr0_fixed0) == cr0_fixed0 \ {0}

\* cr0_fixed0 &= !(1 << 0); cr0_fixed0 &= !(1 << 31).
GuestCr0Of(cr0_fixed0) == (cr0_fixed0 \ {0}) \ {31}

\* The write_field calls of initialize_guest_vmcs, in order, for the values
\* the core reports in IA32_VMX_CR0_FIXED0 and IA32_VMX_CR4_FIXED0.
GuestStateWrites(cr0_fixed0, cr4_fixed0) ==
    << <<"GuestEsSelector", {}>>,
       <<"GuestCsSelector", Bits(\hF000)>>,
       <<"GuestSsSelector", {}>>,
       <<"GuestDsSelector", {}>>,
       <<"GuestFsSelector", {}>>,
       <<"GuestGsSelector", {}>>,
       <<"GuestTrSelector", {}>>,
       <<"GuestLdtrSelector", {}>>,
       <<"GuestEsBase", {}>>,
       <<"GuestCsBase", Shl(Bits(\hFFFF), 16)>>,
       <<"GuestSsBase", {}>>,
       <<"GuestDsBase", {}>>,
       <<"GuestFsBase", {}>>,
       <<"GuestGsBase", {}>>,
       <<"GuestTrBase", {}>>,
       <<"GuestLdtrBase", {}>>,
       <<"GuestIdtrBase", {}>>,
       <<"GuestGdtrBase", {}>>,
       <<"GuestEsLimit", Bits(\hFFFF)>>,
       <<"GuestCsLimit", Bits(\hFFFF)>>,
       <<"GuestSsLimit", Bits(\hFFFF)>>,
       <<"GuestDsLimit", Bits(\hFFFF)>>,
       <<"GuestFsLimit", Bits(\hFFFF)>>,
       <<"GuestGsLimit", Bits(\hFFFF)>>,
       <<"GuestTrLimit", Bits(\hFFFF)>>,
       <<"GuestLdtrLimit", Bits(\hFFFF)>>,
       <<"GuestIdtrLimit", Bits(\hFFFF)>>,
       <<"GuestGdtrLimit", Bits(\hFFFF)>>,
       <<"GuestEsArBytes", Bits(\h93)>>,
       <<"GuestSsArBytes", Bits(\h93)>>,
       <<"GuestDsArBytes", Bits(\h93)>>,
       <<"GuestFsArBytes", Bits(\h93)>>,
       <<"GuestGsArBytes", Bits(\h93)>>,
       <<"GuestCsArBytes", Bits(\h9B)>>,
       <<"GuestLdtrArBytes", Bits(\h82)>>,
       <<"GuestTrArBytes", Bits(\h8B)>>,
       <<"GuestInterruptibilityInfo", {}>>,
       <<"GuestActivityState", {}>>,
       <<"GuestDr7", {}>>,
       <<"GuestRsp", {}>>,
       <<"GuestRflags", {1}>>,
       <<"VmcsLinkPointer", LowHalf>>,
       <<"VmcsLinkPointerHigh", LowHalf>>,
       <<"GuestIa32Efer", {}>>,
       <<"Cr0GuestHostMask", GuestCr0Of(cr0_fixed0) \cap LowHalf>>,
       <<"Cr4GuestHostMask", cr4_fixed0 \cap LowHalf>>,
       <<"GuestCr0", GuestCr0Of(cr0_fixed0)>>,
       <<"GuestCr4", cr4_fixed0>>,
       <<"Cr0ReadShadow", {}>>,
       <<"Cr4ReadShadow", {}>>,
       <<"GuestCr3", {}>>,
       <<"GuestRip", Bits(\hFFF0)>> >>

\* The fields of the model's VMCS: those initialize_guest_vmcs writes, and
\* one guest field the construction never writes.
GuestStateFields ==
    {GuestStateWrites({}, {})[i][1] : i \in 1..Len(GuestStateWrites({}, {}))}
        \cup {"GuestPendingDbgExceptions"}

\* ActiveVmcs::write_field, one call after the other.
RECURSIVE ApplyWrites(_, _)
ApplyWrites(v, ws) ==
    IF ws = <<>> THEN v
    ELSE ApplyWrites([v EXCEPT ![Head(ws)[1]] = Head(ws)[2]], Tail(ws))

\* IA32_VMX_CR0_FIXED0: PE, NE and PG required (0x80000021), or, with
\* unrestricted guests, NE alone; and two values with fewer bits.
Cr0Fixed0Values == {{0, 5, 31}, {5}, {0, 5}, {}}

\* IA32_VMX_CR4_FIXED0: VMXE (0x2000).
Cr4Fixed0Values == {{13}, {}}

\* What a frame holds when the allocator hands it out is not defined: all
\* zeroes or all ones here.
FrameContents == {{}, WordBits}

\* VCpu::new has enabled VMX, activated the VMCS, written the EPT pointer
\* and the APIC access address and programmed the host state.
InitGuestState ==
    /\ mode = "constructing"
    /\ pending = <<>>
    /\ \E content \in FrameContents :
          vmcs = [f \in GuestStateFields |-> content]
    /\ serial = FALSE
    /\ irqKind = "ExternalInterrupt"
    /\ last = NoCall
    /\ IdleInject /\ IdleFixed /\ IdleEmu /\ IdleConsole
    /\ hstate = [r \in Regions |-> IF r = 1 THEN "Active" ELSE "Unallocated"]
    /\ vmx = "active"
    /\ current = 1
    /\ acc = NoAccess
    /\ vcall = [NoVmcsCall EXCEPT !.op = "VCpu::new", !.region = 1,
                                  !.status = "host_programmed"]

\* Self::initialize_guest_vmcs(&mut vcpu.vmcs)?: the writes up to the first
\* that fails, whose error drops the VCpu and its ActiveVmcs.
InitializeGuestVmcs ==
    /\ vcall.op = "VCpu::new" /\ vcall.status = "host_programmed"
    /\ \E cr0_fixed0 \in Cr0Fixed0Values, cr4_fixed0 \in Cr4Fixed0Values :
       LET ws == GuestStateWrites(cr0_fixed0, cr4_fixed0)
       IN  \E n \in 0..Len(ws) :
              /\ vmcs' = ApplyWrites(vmcs, SubSeq(ws, 1, n))
              /\ vcall' = [vcall EXCEPT
                              !.step = n,
                              !.status = IF n = Len(ws) THEN "guest_programmed"
                                         ELSE "failed"]
              /\ IF n = Len(ws) THEN UNCHANGED <<hstate, vmx, current>>
                 ELSE SetHandles(ActiveDropped(HandleState, vcall.region))
    /\ acc' = [op |-> "write_field", via |-> vcall.region, on |-> current]
    /\ UNCHANGED <<mode, pending, serial, irqKind, last, injVars, fixedVars,
                   emuVars, consoleVars>>

\* Self::initialize_ctrl_vmcs(&mut vcpu.vmcs)?, which writes controls and
\* no field of the guest state, and Ok(vcpu).
InitializeCtrlVmcs ==
    /\ vcall.op = "VCpu::new" /\ vcall.status = "guest_programmed"
    /\ \E ok \in BOOLEAN :
          IF ok
          THEN /\ vcall' = [vcall EXCEPT !.status = "constructed"]
               /\ mode' = "constructed"
               /\ UNCHANGED <<hstate, vmx, current>>
          ELSE /\ vcall' = [vcall EXCEPT !.status = "failed"]
               /\ mode' = mode
               /\ SetHandles(ActiveDropped(HandleState, vcall.region))
    /\ acc' = [op |-> "write_with_fixed", via |-> vcall.region, on |-> current]
    /\ UNCHANGED <<pending, vmcs, serial, irqKind, last, injVars, fixedVars,
                   emuVars, consoleVars>>

NextGuestState == InitializeGuestVmcs \/ InitializeCtrlVmcs

SpecGuestState == InitGuestState /\ [][NextGuestState]_vars

(***************************************************************************)
(* RDMSR exits, with the guest's registers: the RdMsr arm of               *)
(* handle_vmexit_impl.                                                     *)
(***************************************************************************)
IA32_APIC_BASE == Bits(\h1B)
X2APIC_ENABLE == 10

\* `guest_cpu.rcx as u32`, `guest_cpu.rax as u32`.
AsU32(w) == w \cap (0 .. 31)

\* Fault variant of ReadApicBase: the x2APIC-enable bit is left in.
ReadApicBaseUnmasked(c, real) ==
    [c EXCEPT !.rdx = Shr(real, 32), !.rax = real \cap (0 .. 31)]

\* The IA32_APIC_BASE arm: real_apic_base &= !(1 << 10), then rdx and rax.
ReadApicBase(c, real) ==
    LET real_apic_base == real \ {X2APIC_ENABLE}
    IN  [c EXCEPT !.rdx = Shr(real_apic_base, 32),
                  !.rax = real_apic_base \cap (0 .. 31)]

\* 0xFEE00D00 and 0xFEE00900: the APIC at its usual base, enabled, on the
\* bootstrap processor, in x2APIC mode or not; and a base above 4 GiB.
ApicBaseValues ==
    {Shl(Bits(\hFEE00), 12) \cup Bits(\hD00),
     Shl(Bits(\hFEE00), 12) \cup Bits(\h900),
     {35} \cup Shl(Bits(\hFEE00), 12) \cup Bits(\hD00)}

\* The registers of a guest that executes RDMSR.
MsrGuestRegisters ==
    [rax : {Bits(\h41), {63}},
     rbx : {Bits(\hB)},
     rcx : {IA32_APIC_BASE, IA32_APIC_BASE \cup {32}, Bits(\h10)},
     rdx : {{}, {0, 40}}]

InitRdMsr ==
    /\ InitVcpu
    /\ irqKind = "ExternalInterrupt"
    /\ cpu \in MsrGuestRegisters
    /\ apicBase \in ApicBaseValues
    /\ emu = NoEmulation
    /\ IdleInject /\ IdleFixed /\ InitHandles /\ IdleConsole

\* A RdMsr exit: handle_vmexit with the guest's registers.  The match on
\* `guest_cpu.rcx as u32` hits unreachable!() for any other MSR.
RdMsrExit ==
    LET permitted == AsU32(cpu.rcx) = IA32_APIC_BASE
    IN  /\ HandleExit({[reason |-> "RdMsr", ok |-> permitted, sub |-> "none"]})
        /\ cpu' = IF permitted THEN ReadApicBase(cpu, apicBase) ELSE cpu
        /\ emu' = [NoEmulation EXCEPT !.op = "rdmsr", !.before = cpu]
        /\ UNCHANGED apicBase

\* The guest resumes; its registers are followed from the exit on.
NextRdMsr == VmEntry \/ RdMsrExit

SpecRdMsr == InitRdMsr /\ [][NextRdMsr]_vars

(***************************************************************************)
(* Port I/O: emulate_portio.                                               *)
(***************************************************************************)
\* Byte i of a word, byte 0 the least significant.
ByteOf(w, i) == ToNat(Shr(w, 8 * i) \cap (0 .. 7))

\* Fault variant of ToBeBytes: u32::to_le_bytes.
ToLeBytes(w) == <<ByteOf(w, 0), ByteOf(w, 1), ByteOf(w, 2), ByteOf(w, 3)>>

\* u32::to_be_bytes.
ToBeBytes(w) == <<ByteOf(w, 3), ByteOf(w, 2), ByteOf(w, 1), ByteOf(w, 0)>>

\* `&arr[4 - size as usize..]` of `(guest_cpu.rax as u32).to_be_bytes()`.
PortWriteBytes(rax, size) == SubSeq(ToBeBytes(AsU32(rax)), 4 - size + 1, 4)

\* The operand sizes of an I/O instruction, and the ports of the run: COM1,
\* which has a device, and a port no device is bound to.
PortSizes == {1, 2, 4}
COM1 == \h3F8
UnboundPort == \h80
Ports == {COM1, UnboundPort}

\* Fault variant of DeviceFor: every port has a device.
DeviceForAny(port) == TRUE

\* vm.config.device_map().device_for_mut(port) is Some.
DeviceFor(port) == port = COM1

\* What a call of emulate_portio leaves: its result, the registers, and
\* what the device and the guest memory saw.
Outcome(res, c, received, reads, written) ==
    [res |-> res, cpu |-> c, received |-> received, reads |-> reads,
     written |-> written]

\* Non-string OUT (portio.rs:94-99).  written: whether the device's
\* on_port_write succeeds.
NonStringWrite(c, port, size, written) ==
    IF ~DeviceFor(port) THEN Outcome("MissingDevice", c, <<>>, <<>>, <<>>)
    ELSE Outcome(IF written THEN "Ok" ELSE "DeviceError", c,
                 << <<port, PortWriteBytes(c.rax, size)>> >>, <<>>, <<>>)

\* `guest_cpu.rax &= (!guest_cpu.rax) << (size * 8)`, then
\* `guest_cpu.rax |= val.as_u32() as u64`.
SpliceRead(rax, size, val) ==
    (rax \cap Shl(BitNot(rax), size * 8)) \cup val

\* Non-string IN (portio.rs:100-110).  val: the value the device puts into
\* the PortIoValue, below 2^(8*size); read: whether on_port_read succeeds.
NonStringRead(c, port, size, val, read) ==
    IF ~DeviceFor(port) THEN Outcome("MissingDevice", c, <<>>, <<>>, <<>>)
    ELSE IF ~read THEN Outcome("DeviceError", c, <<>>, <<val>>, <<>>)
    ELSE Outcome("Ok", [c EXCEPT !.rax = SpliceRead(@, size, val)],
                 <<>>, <<val>>, <<>>)

\* The guest memory at the linear address of the string operand, byte by
\* byte.
GuestBytes(n) == [i \in 1 .. n |-> (17 * i) % 256]

\* chunks_exact(size): the whole chunks of `size` bytes, in order.
ChunksExact(bytes, size) ==
    [k \in 1 .. (Len(bytes) \div size) |->
        SubSeq(bytes, (k - 1) * size + 1, k * size)]

\* emulate_outs.  readable: whether the guest memory can be read; written:
\* whether the on_port_write calls succeed (the first one fails if not).
EmulateOuts(c, port, size, readable, written) ==
    LET bytes == GuestBytes(ToNat(c.rcx) * size)
        chunks == ChunksExact(bytes, size)
        calls == [k \in 1 .. Len(chunks) |-> <<port, chunks[k]>>]
    IN  IF ~readable THEN Outcome("MemoryError", c, <<>>, <<>>, <<>>)
        ELSE IF ~DeviceFor(port)
        THEN Outcome("MissingDevice", c, <<>>, <<>>, <<>>)
        ELSE IF ~written /\ calls # <<>>
        THEN Outcome("DeviceError", c, SubSeq(calls, 1, 1), <<>>, <<>>)
        ELSE Outcome("Ok",
                     [c EXCEPT !.rsi = Bits(ToNat(@) + Len(bytes)),
                               !.rcx = {}],
                     calls, <<>>, <<>>)

\* The bytes the device returns at its k-th on_port_read of a string IN.
DeviceBytes(k, size) == [i \in 1 .. size |-> (160 + 16 * k + i) % 256]

\* Concatenation of a sequence of sequences.
RECURSIVE Flatten(_)
Flatten(seqs) ==
    IF seqs = <<>> THEN <<>> ELSE Head(seqs) \o Flatten(Tail(seqs))

\* emulate_ins.  `vec![0u8; guest_cpu.rcx as usize]` is filled chunk by
\* chunk and written to guest memory whole.  read: whether the
\* on_port_read calls succeed; writable: whether the memory can be written.
EmulateIns(c, port, size, read, writable) ==
    LET len == ToNat(c.rcx)
        n == len \div size
        reads == [k \in 1 .. n |-> DeviceBytes(k, size)]
        bytes == Flatten(reads) \o [i \in 1 .. (len - n * size) |-> 0]
    IN  IF ~DeviceFor(port)
        THEN Outcome("MissingDevice", c, <<>>, <<>>, <<>>)
        ELSE IF ~read /\ n > 0
        THEN Outcome("DeviceError", c, <<>>, SubSeq(reads, 1, 1), <<>>)
        ELSE IF ~writable
        THEN Outcome("MemoryError", c, <<>>, reads, <<>>)
        ELSE Outcome("Ok",
                     [c EXCEPT !.rdi = Bits(ToNat(@) + Len(bytes)),
                               !.rcx = {}],
                     <<>>, reads, bytes)

\* The values a device can return on a non-string IN of `size` bytes.
ReadValues(size) == {{}, {b \in 0 .. 8 * size - 1 : b % 8 \in {1, 3, 4, 6}}}

\* The registers of a guest that executes a port I/O instruction.
PortGuestRegisters ==
    [rax : {Bits(\h41), Shl(Bits(\h1234), 16) \cup Bits(\h5678),
            {40} \cup Bits(\hBEEF), {31, 63}},
     rbx : {Bits(\hB)},
     rcx : {{}, Bits(3)},
     rdx : {Bits(\h3F8), {0, 40}},
     rsi : {Bits(\h2000)},
     rdi : {Bits(\h3000)}]

InitPortio ==
    /\ pending = <<>>
    /\ cpu \in {c \in PortGuestRegisters : c.rax = Bits(\h41)}
    /\ apicBase = {}
    /\ emu = NoEmulation
    /\ IdleVcpu /\ IdleInject /\ IdleFixed /\ InitHandles /\ IdleConsole

\* The record of the call emulate_portio(vcpu, guest_cpu, exit) that left
\* outcome o.  One call is followed for each run of the guest.
Emulated(port, size, input, string, o) ==
    [op |-> "portio", before |-> cpu, res |-> o.res, port |-> port,
     size |-> size, input |-> input, string |-> string,
     received |-> o.received, reads |-> o.reads, written |-> o.written]

\* emulate_portio with `string` and `input` false.  No device for the port
\* is Error::MissingDevice; the device's on_port_write can fail.
PortWrite ==
    /\ emu = NoEmulation
    /\ \E port \in Ports, size \in PortSizes, written \in BOOLEAN :
          LET o == NonStringWrite(cpu, port, size, written)
          IN  /\ emu' = Emulated(port, size, FALSE, FALSE, o)
              /\ cpu' = o.cpu
    /\ UNCHANGED <<apicBase, vcpuVars, injVars, fixedVars, handleVars,
                   consoleVars>>

\* emulate_portio with `string` false and `input` true.
PortRead ==
    /\ emu = NoEmulation
    /\ \E port \in Ports, size \in PortSizes, read \in BOOLEAN :
       \E val \in ReadValues(size) :
          LET o == NonStringRead(cpu, port, size, val, read)
          IN  /\ emu' = Emulated(port, size, TRUE, FALSE, o)
              /\ cpu' = o.cpu
    /\ UNCHANGED <<apicBase, vcpuVars, injVars, fixedVars, handleVars,
                   consoleVars>>

\* emulate_portio with `string` true: emulate_outs.
PortOuts ==
    /\ emu = NoEmulation
    /\ \E port \in Ports, size \in PortSizes, readable, written \in BOOLEAN :
          LET o == EmulateOuts(cpu, port, size, readable, written)
          IN  /\ emu' = Emulated(port, size, FALSE, TRUE, o)
              /\ cpu' = o.cpu
    /\ UNCHANGED <<apicBase, vcpuVars, injVars, fixedVars, handleVars,
                   consoleVars>>

\* emulate_portio with `string` true: emulate_ins.
PortIns ==
    /\ emu = NoEmulation
    /\ \E port \in Ports, size \in PortSizes, read, writable \in BOOLEAN :
          LET o == EmulateIns(cpu, port, size, read, writable)
          IN  /\ emu' = Emulated(port, size, TRUE, TRUE, o)
              /\ cpu' = o.cpu
    /\ UNCHANGED <<apicBase, vcpuVars, injVars, fixedVars, handleVars,
                   consoleVars>>

\* The guest goes on to its next port I/O with other registers.
GuestRuns ==
    /\ emu.res = "Ok"
    /\ cpu' \in PortGuestRegisters
    /\ emu' = NoEmulation
    /\ UNCHANGED <<apicBase, vcpuVars, injVars, fixedVars, handleVars,
                   consoleVars>>

\* emulate_portio: the four forms of the instruction.
EmulatePortio(c, port, size, input, string, device, memory) ==
    CASE ~string /\ ~input -> NonStringWrite(c, port, size, device)
      [] ~string /\ input ->
            NonStringRead(c, port, size, Bits(\h5A) \cap (0 .. 7), device)
      [] string /\ ~input -> EmulateOuts(c, port, size, memory, device)
      [] OTHER -> EmulateIns(c, port, size, device, memory)

NextPortio == PortWrite \/ PortRead \/ PortOuts \/ PortIns \/ GuestRuns

SpecPortio == InitPortio /\ [][NextPortio]_vars

(***************************************************************************)
(* Port I/O exits through handle_vmexit: the IoInstruction arm calls       *)
(* emulate_portio with the registers the guest had at the exit.            *)
(***************************************************************************)
PortExitRegisters ==
    {c \in PortGuestRegisters :
        /\ c.rax = Shl(Bits(\h1234), 16) \cup Bits(\h5678)
        /\ c.rcx = Bits(3)
        /\ c.rdx = Bits(\h3F8)}

InitPortExit ==
    /\ InitVcpu
    /\ irqKind = "ExternalInterrupt"
    /\ cpu \in PortExitRegisters
    /\ apicBase = {}
    /\ emu = NoEmulation
    /\ IdleInject /\ IdleFixed /\ InitHandles /\ IdleConsole

\* VCpu::launch: the first VM entry.
Launch == mode = "constructed" /\ VmEntry

\* The first exit of the guest, an IoInstruction exit: handle_vmexit with
\* guest_cpu as the guest left it.
PortIoExit ==
    \E c \in PortExitRegisters, port \in Ports, size \in PortSizes :
    \E input, string, device, memory \in BOOLEAN :
        LET o == EmulatePortio(c, port, size, input, string, device, memory)
        IN  /\ HandleExit({[reason |-> "IoInstruction", ok |-> o.res = "Ok",
                            sub |-> "none"]})
            /\ emu' = [Emulated(port, size, input, string, o)
                           EXCEPT !.before = c]
            /\ cpu' = o.cpu
            /\ UNCHANGED apicBase

NextPortExit == Launch \/ PortIoExit

SpecPortExit == InitPortExit /\ [][NextPortExit]_vars

(***************************************************************************)
(* The console handover among the VMs: the NextConsole response in the     *)
(* VCPU of the VM that gives the serial device away, and the IPC-vector    *)
(* exit in the VCPU of the VM that gets it.                                *)
(***************************************************************************)
MaxQueue == 2

\* Fault variant of NextVm: the VM before.
PreviousVm(vmid) == (vmid + MaxVmId - 1) % MaxVmId

\* `(vmid + 1) % vm::max_vm_id()`.
NextVm(vmid) == (vmid + 1) % MaxVmId

\* The part of a handle_vmexit record the console operations use.
ConsoleSt(v) ==
    [res |-> "Ok", serial |-> owner[v], pending |-> <<>>, added |-> {},
     held |-> <<>>, took |-> 0]

\* One VM holds the serial device when the machine has booted, and GSI 4
\* is routed to it.
InitConsole ==
    /\ \E first \in VmIds :
          /\ owner = [v \in VmIds |-> v = first]
          /\ gsi = [BootGsi EXCEPT !.dest = first]
    /\ queue = [v \in VmIds |-> <<>>]
    /\ con = NoConsoleCall
    /\ pending = <<>>
    /\ IdleVcpu /\ IdleInject /\ IdleFixed /\ InitHandles /\ IdleEmu

\* A VCPU of VM v handles a NextConsole response: take() the serial device
\* (NotFound if the VM has none), send GrantConsole to the next VM, map
\* GSI 4.  The send and the mapping can fail, and an error is fatal.
ConsoleHandover(v) ==
    /\ con.res # "Err"
    /\ Len(queue[NextVm(v)]) < MaxQueue
    /\ \E console \in {"ok", "send_failed", "map_failed"} :
          LET r == HandleResponse(ConsoleSt(v), NextConsole, console)
              next_vmid == NextVm(v)
              sends == owner[v] /\ console # "send_failed"
              maps == owner[v] /\ console = "ok"
          IN  /\ owner' = [owner EXCEPT ![v] = r.serial]
              /\ queue' = IF sends
                           THEN [queue EXCEPT
                                   ![next_vmid] = Append(@, "GrantConsole")]
                           ELSE queue
              /\ gsi' = IF maps
                         THEN [gsi_no |-> 4, vector |-> UART_VECTOR,
                               dest |-> next_vmid]
                         ELSE gsi
              /\ con' = [NoConsoleCall EXCEPT
                            !.op = "NextConsole", !.vm = v, !.res = r.res,
                            !.hadSerial = owner[v],
                            !.sent = IF sends
                                     THEN << <<next_vmid, "GrantConsole">> >>
                                     ELSE <<>>]
    /\ UNCHANGED <<vcpuVars, injVars, fixedVars, handleVars, emuVars>>

\* Something sends CancelTimer to VM v.
SendCancelTimer(v) ==
    /\ con.res # "Err"
    /\ Len(queue[v]) < MaxQueue
    /\ queue' = [queue EXCEPT ![v] = Append(@, "CancelTimer")]
    /\ con' = NoConsoleCall
    /\ UNCHANGED <<owner, gsi, vcpuVars, injVars, fixedVars, handleVars,
                   emuVars>>

\* A VCPU of VM v takes an exit for the IPC vector: recv_vm_msg takes the
\* oldest message, if any.
IpcExit(v) ==
    /\ con.res # "Err"
    /\ \E ok \in BOOLEAN :
          LET msg == IF queue[v] = <<>> THEN "none" ELSE Head(queue[v])
              sub == CASE msg = "none" -> "ipc_none"
                       [] msg = "GrantConsole" -> "ipc_grant"
                       [] OTHER -> "ipc_cancel"
              r == HandleVector(ConsoleSt(v),
                       [reason |-> "ExternalInterrupt", ok |-> ok,
                        sub |-> sub])
          IN  /\ owner' = [owner EXCEPT ![v] = r.serial]
              /\ queue' = IF msg = "none" THEN queue
                           ELSE [queue EXCEPT ![v] = Tail(@)]
              /\ con' = [NoConsoleCall EXCEPT
                            !.op = "ipc", !.vm = v, !.res = r.res,
                            !.hadSerial = owner[v], !.msg = msg,
                            !.granted =
                                \E i \in 1 .. Len(queue[v]) :
                                    queue[v][i] = "GrantConsole"]
    /\ UNCHANGED <<gsi, vcpuVars, injVars, fixedVars, handleVars, emuVars>>

NextConsoleStep ==
    \E v \in VmIds : ConsoleHandover(v) \/ SendCancelTimer(v) \/ IpcExit(v)

SpecConsole == InitConsole /\ [][NextConsoleStep]_vars

(***************************************************************************)
(* Properties of handle_vmexit, read off the state after a call: `last`    *)
(* describes the call, vmcs and pending are what it left.  The guest-state *)
(* fields of vmcs are the ones the call read, handle_vmexit writing none   *)
(* of them but GuestRip.                                                   *)
(***************************************************************************)
\* The writes of VmEntryIntrInfoField the call issued.
IntrInfoWrites ==
    SelectSeq(last.writes, LAMBDA w : w[1] = "VmEntryIntrInfoField")

\* The call came past the dispatcher and the timers with something pending.
PendingAfterMerge == last.post /\ last.merged # <<>>

\* Interruptibility zero and RFLAGS.IF set.
GuestInjectable ==
    vmcs.GuestInterruptibilityInfo = {} /\ 9 \in vmcs.GuestRflags

\* One entry popped, and the field written once with the valid bit.
InjectedOne ==
    /\ Len(IntrInfoWrites) = 1
    /\ 31 \in IntrInfoWrites[1][2]
    /\ Len(pending) + 1 = Len(last.merged)

\* Nothing popped since the merge and the field not written.
NothingInjected == IntrInfoWrites = <<>> /\ pending = last.merged

WindowSet == 2 \in vmcs.CpuBasedVmExecControl

\* The vectors the call took out of the pending set.
RemovedVectors ==
    (PendingVectors(last.before) \cup last.added) \ PendingVectors(pending)

\* Bits 7:0 of the first value written to VmEntryIntrInfoField.
InjectedVector == ToNat(IntrInfoWrites[1][2] \cap (0..7))

\* C1: whenever the pending set is non-empty after the dispatcher and the
\* timer expiry, handle_vmexit injects (pops one entry and writes
\* VmEntryIntrInfoField with the valid bit) if and only if
\* GuestInterruptibilityInfo is zero and bit 9 of GuestRflags is 1.
InjectionGating == PendingAfterMerge => (InjectedOne <=> GuestInjectable)

InjectionGatingWitness ==
    /\ PendingAfterMerge
    /\ vmcs.GuestRflags = Bits(\h202)
    /\ vmcs.GuestInterruptibilityInfo = {}
    /\ InjectedOne

\* C2: after every handle_vmexit that returns Ok, INTERRUPT_WINDOW_EXITING is
\* set in CpuBasedVmExecControl iff the pending set was non-empty and the
\* guest not injectable this round, or the pending set is still non-empty
\* after the one injection; equivalently, iff the pending set is non-empty
\* at return.
WindowIffPending ==
    last.res = "Ok" =>
        /\ WindowSet <=> (\/ PendingAfterMerge /\ ~GuestInjectable
                          \/ InjectedOne /\ pending # <<>>)
        /\ WindowSet <=> (pending # <<>>)

WindowIffPendingWitness ==
    /\ last.res = "Ok"
    /\ InjectedOne
    /\ pending # <<>>
    /\ WindowSet

\* C3: a call of handle_vmexit removes at most one entry from the pending
\* set and writes VmEntryIntrInfoField at most once; when the set is
\* non-empty and the guest is injectable it injects exactly one entry and
\* every other entry stays pending.
AtMostOneInjection ==
    last.res # "None" =>
        /\ Len(IntrInfoWrites) <= 1
        /\ Cardinality(RemovedVectors) <= 1
        /\ (PendingAfterMerge /\ GuestInjectable) =>
              /\ Len(IntrInfoWrites) = 1
              /\ Cardinality(RemovedVectors) = 1
              /\ \A i \in 1..Len(last.merged) :
                    last.merged[i][1] \notin RemovedVectors
                        => \E j \in 1..Len(pending) : pending[j] = last.merged[i]

AtMostOneInjectionWitness ==
    /\ last.post
    /\ Len(last.merged) = 3
    /\ GuestInjectable
    /\ Len(IntrInfoWrites) = 1
    /\ Len(pending) = 2

\* C4: whenever handle_vmexit injects, the injected vector is the lowest
\* vector of the pending set at that moment, the set holding the vectors
\* pending before the exit and those merged from device responses and
\* expired timers during it.
LowestVectorFirst ==
    Len(IntrInfoWrites) >= 1 =>
        /\ PendingVectors(last.before) \cup last.added
              = PendingVectors(last.merged)
        /\ InjectedVector \in PendingVectors(last.merged)
        /\ \A w \in PendingVectors(last.merged) : InjectedVector <= w

LowestVectorFirstWitness ==
    /\ PendingVectors(last.before) = {\h30, \h40}
    /\ last.added = {\h21}
    /\ Len(IntrInfoWrites) = 1
    /\ InjectedVector = \h21

\* C8 as stated: when the pending set is non-empty and the guest is not
\* injectable (interruptibility non-zero or IF clear), handle_vmexit leaves
\* the pending set as it was after the merge, does not write
\* VmEntryIntrInfoField, and returns with INTERRUPT_WINDOW_EXITING set.
NonInjectableSetsWindow ==
    (PendingAfterMerge /\ ~GuestInjectable) =>
        /\ NothingInjected
        /\ last.res = "Ok"
        /\ WindowSet

\* C8: when the pending set is non-empty and the guest is not injectable,
\* handle_vmexit leaves the pending set as it was after the merge and does
\* not write VmEntryIntrInfoField; it returns Ok with
\* INTERRUPT_WINDOW_EXITING set when the interruptibility value has only
\* bits InterruptibilityState defines, and fails, without writing
\* CpuBasedVmExecControl, when it has another bit.
NonInjectablePath ==
    (PendingAfterMerge /\ ~GuestInjectable) =>
        /\ NothingInjected
        /\ IF vmcs.GuestInterruptibilityInfo \subseteq InterruptibilityBits
           THEN last.res = "Ok" /\ WindowSet
           ELSE /\ last.res = "Err"
                /\ \A i \in 1..Len(last.writes) :
                      last.writes[i][1] # "CpuBasedVmExecControl"

NonInjectablePathWitness ==
    /\ last.post
    /\ last.merged = << <<\h30, "ExternalInterrupt">> >>
    /\ 9 \notin vmcs.GuestRflags
    /\ vmcs.GuestInterruptibilityInfo = {}
    /\ pending = last.merged
    /\ last.res = "Ok"
    /\ WindowSet

(***************************************************************************)
(* The encoding of the injected event, over every injection kind.          *)
(***************************************************************************)
\* The injection-type codes of the VM-entry interruption information.
InjectionTypeCode ==
    [k \in InjectedInterruptType |->
        CASE k = "ExternalInterrupt" -> 0
          [] k = "NonMaskableInterrupt" -> 2
          [] k = "HardwareException" -> 3
          [] k = "SoftwareInterrupt" -> 4
          [] k = "PrivilegedSoftwareException" -> 5
          [] k = "SoftwareException" -> 6
          [] k = "OtherEvent" -> 7]

\* The entry of the merged set the call popped.
InjectedEntry ==
    CHOOSE e \in {last.merged[i] : i \in 1..Len(last.merged)} :
        e[1] \notin PendingVectors(pending)

\* Timers expire (0x30, External) and (0x21, External) with nothing pending
\* before, and the guest is injectable.
TwoTimersExpired ==
    /\ last.post
    /\ last.before = <<>>
    /\ last.merged = << <<\h21, "ExternalInterrupt">>,
                        <<\h30, "ExternalInterrupt">> >>
    /\ GuestInjectable

\* C7: on injection of a pending entry (vector, kind) the value written to
\* VmEntryIntrInfoField is 0x80000000 | vector | (kind << 8): bit 31 set,
\* bits 7:0 the vector, bits 10:8 the injection-type code of the kind, no
\* other bit set; with timers expiring (0x30, External) and (0x21, External)
\* and an injectable guest the field holds 0x80000021 after the exit.
IntrInfoEncoding ==
    /\ Len(IntrInfoWrites) >= 1 =>
          LET w == IntrInfoWrites[1][2]
          IN  /\ 31 \in w
              /\ ToNat(w \cap (0..7)) = InjectedEntry[1]
              /\ ToNat(Shr(w \cap (8..10), 8))
                    = InjectionTypeCode[InjectedEntry[2]]
              /\ w \subseteq (0..10) \cup {31}
              /\ vmcs.VmEntryIntrInfoField = w
    /\ TwoTimersExpired => vmcs.VmEntryIntrInfoField = {0, 5, 31}

IntrInfoEncodingWitness ==
    /\ TwoTimersExpired
    /\ vmcs.VmEntryIntrInfoField = {0, 5, 31}
    /\ pending = << <<\h30, "ExternalInterrupt">> >>

(***************************************************************************)
(* No interrupt is lost.                                                   *)
(***************************************************************************)
IsPending(v) == v \in PendingVectors(pending)

\* The latest call wrote vector v to VmEntryIntrInfoField.
WasInjected(v) ==
    \E i \in 1..Len(IntrInfoWrites) :
        /\ 31 \in IntrInfoWrites[i][2]
        /\ IntrInfoWrites[i][2] \cap (0..7) = Bits(v)

\* A handle_vmexit has returned Ok on an exit of an injectable guest.
InjectableRound == mode = "host" /\ last.post /\ GuestInjectable

\* The latest call added no vector below v to the pending set.
NoLowerAdded(v) == \A w \in last.added : w >= v

\* C6 as stated: every vector placed in the pending set is eventually
\* written to VmEntryIntrInfoField, assuming exits keep occurring and the
\* guest is injectable again and again, whatever timers and devices add in
\* the meantime.
NoInterruptLost ==
    \A v \in Vectors :
        ([]<>InjectableRound) => (IsPending(v) ~> WasInjected(v))

\* C6: every vector v placed in the pending set is eventually written to
\* VmEntryIntrInfoField, assuming exits keep occurring, the guest is
\* injectable again and again, and from some exit on timers and devices add
\* no vector lower than v.
NoInterruptLostUnlessOvertaken ==
    \A v \in Vectors :
        (([]<>InjectableRound) /\ <>[](NoLowerAdded(v)))
            => (IsPending(v) ~> WasInjected(v))

\* 0x40 waited while a lower vector was injected, and is injected now.
NoInterruptLostWitness ==
    /\ \h40 \in PendingVectors(last.before)
    /\ \h40 \notin last.added
    /\ Len(last.before) = 1
    /\ WasInjected(\h40)

(***************************************************************************)
(* Properties of inject_interrupt.                                         *)
(***************************************************************************)
\* The calls since the latest drain that named the vector.
CallsFor(vector) == SelectSeq(injHist, LAMBDA c : c[1] = vector)

\* C5: after any sequence of inject_interrupt calls the pending set holds at
\* most one entry per vector: a vector injected since the latest drain has
\* exactly one entry, with the kind of its latest call, and the entries of
\* every other vector are as they were.
InjectDedup ==
    \A v \in Vectors :
        /\ Len(EntriesOf(pending, v)) <= 1
        /\ IF CallsFor(v) = <<>>
           THEN EntriesOf(pending, v) = EntriesOf(injBase, v)
           ELSE EntriesOf(pending, v) = << CallsFor(v)[Len(CallsFor(v))] >>

InjectDedupWitness ==
    /\ injHist = << <<\h30, "ExternalInterrupt">>,
                    <<\h30, "NonMaskableInterrupt">> >>
    /\ EntriesOf(pending, \h30) = << <<\h30, "NonMaskableInterrupt">> >>
    /\ EntriesOf(pending, \h40) = << <<\h40, "ExternalInterrupt">> >>

(***************************************************************************)
(* Properties of write_with_fixed.                                         *)
(***************************************************************************)
\* (value & high) | low, bit by bit, with low bits 31:0 and high bits 63:32
\* of the capability MSR.
MaskedValue ==
    {i \in WordBits :
        \/ i \in wf.value /\ (i + 32) \in wf.fixed
        \/ i <= 31 /\ i \in wf.fixed}

\* C9: write_with_fixed fails iff value & !((value & high) | low) is
\* non-zero, and otherwise writes (value & high) | low to the field and
\* returns it.
FixedMasking ==
    wf.called =>
        /\ (~wf.ok) <=> (\E i \in wf.value : i \notin MaskedValue)
        /\ wf.ok => (wf.ret = MaskedValue /\ wf.field = MaskedValue)

FixedMaskingWitness ==
    /\ wf.called
    /\ wf.ok
    /\ wf.value # {}
    /\ wf.ret \ wf.value # {}
    /\ wf.field = wf.ret
    /\ wf.before # wf.field

(***************************************************************************)
(* Properties of the VMCS handles.                                         *)
(***************************************************************************)
\* C10: every read_field, write_field or write_with_fixed issued through an
\* ActiveVmcs or a TemporaryActiveVmcs executes while the region of that
\* handle is the core's current VMCS.
AccessOnOwnVmcs == acc.op # "none" => acc.on = acc.via

AccessOnOwnVmcsWitness ==
    /\ acc.op = "write_with_fixed"
    /\ acc.via = 2
    /\ acc.on = 2
    /\ hstate[2] = "TempActive"
    /\ hstate[1] = "Inactive"

(***************************************************************************)
(* Properties of Vmcs::with_active_vmcs.                                   *)
(***************************************************************************)
\* The call has returned to its caller.
TempCallReturned ==
    /\ vcall.op = "with_active_vmcs"
    /\ vcall.status \in {"returned_ok", "returned_err", "not_activated"}

\* One activate first, one clear last, the accesses in between.
OneActivateOneClear ==
    /\ Issued(vcall.log, "activate") = 1
    /\ Issued(vcall.log, "clear") = 1
    /\ vcall.log[1] = "activate"
    /\ vcall.log[Len(vcall.log)] = "clear"

\* C11 as stated: every call of with_active_vmcs issues exactly one activate
\* and exactly one clear of the VMCS on every exit path, the clear after the
\* last field access of the callback, and the VMCS is Inactive when the call
\* returns.
TempCallAlwaysClears ==
    TempCallReturned =>
        /\ OneActivateOneClear
        /\ hstate[vcall.region] = "Inactive"

\* C11: a call of with_active_vmcs whose activation succeeds issues exactly
\* one activate and exactly one clear, the clear after the last field access
\* of the callback, whether the callback returns Ok or Err, and the VMCS is
\* Inactive and no longer current when the call returns; a call whose
\* activation fails returns without calling the callback and without a
\* clear, the VMCS still Inactive.
TempCallDiscipline ==
    TempCallReturned =>
        /\ hstate[vcall.region] = "Inactive"
        /\ IF vcall.status = "not_activated"
           THEN vcall.log = <<"activate">>
           ELSE OneActivateOneClear /\ current # vcall.region

TempCallDisciplineWitness ==
    /\ vcall.op = "with_active_vmcs"
    /\ vcall.status = "returned_err"
    /\ vcall.log = <<"activate", "access", "access", "clear">>
    /\ hstate[vcall.region] = "Inactive"

(***************************************************************************)
(* Properties of VCpu::new.                                                *)
(***************************************************************************)
\* C12: if a step of VCpu::new fails after the VMCS has been activated, a
\* clear is issued on the region before the VCPU is dropped and the frame
\* released, and the region is not left current on the core.
NewFailureClearsVmcs ==
    (vcall.op = "VCpu::new" /\ vcall.status = "failed") =>
        /\ Issued(vcall.log, "clear") = 1
        /\ current # vcall.region

\* What the construction does: a step failing after the activation drops
\* the ActiveVmcs without a clear, and the released region stays current.
NewFailureLeavesVmcsCurrent ==
    (vcall.op = "VCpu::new" /\ vcall.status = "failed") =>
        /\ vcall.log = <<"activate">>
        /\ current = vcall.region
        /\ hstate[vcall.region] = "Unallocated"

NewFailureWitness ==
    /\ vcall.op = "VCpu::new"
    /\ vcall.status = "failed"
    /\ vcall.step = ProgrammingSteps[1]
    /\ current = vcall.region

(***************************************************************************)
(* Properties of the dispatch on the exit reason.                          *)
(***************************************************************************)
\* The writes of GuestRip the last call made.
GuestRipWrites == SelectSeq(last.writes, LAMBDA w : w[1] = "GuestRip")

\* The exits whose arm ends with skip_emulated_instruction.
EmulatedExits ==
    {"RdMsr", "ApicAccess", "CrAccess", "CpuId", "IoInstruction",
     "EptViolation"}

\* C13: after a RdMsr, ApicAccess, CrAccess, CpuId, IoInstruction or
\* EptViolation exit whose emulation succeeds, GuestRip is its value at the
\* exit plus VmExitInstructionLen and was written exactly once; when the
\* emulation fails GuestRip is not written and keeps its value.
RipAdvancedOnce ==
    last.exit \in EmulatedExits =>
        IF last.ok
        THEN /\ Len(GuestRipWrites) = 1
             /\ vmcs.GuestRip
                  = Bits(ToNat(last.rip) + ToNat(vmcs.VmExitInstructionLen))
        ELSE /\ GuestRipWrites = <<>>
             /\ vmcs.GuestRip = last.rip
             /\ last.res # "Ok"

RipAdvancedOnceWitness ==
    /\ last.exit = "IoInstruction"
    /\ last.ok
    /\ last.res = "Ok"
    /\ last.rip = Bits(\h1000)
    /\ vmcs.VmExitInstructionLen = Bits(3)
    /\ vmcs.GuestRip = Bits(\h1003)

\* C14: an ExternalInterrupt exit, for the UART vector, the IPC vector or
\* any other, and an InterruptWindow exit never write GuestRip: it keeps the
\* value it had at the exit.
InterruptExitsKeepRip ==
    last.exit \in {"ExternalInterrupt", "InterruptWindow"} =>
        /\ GuestRipWrites = <<>>
        /\ vmcs.GuestRip = last.rip

InterruptExitsKeepRipWitness ==
    /\ last.exit = "ExternalInterrupt"
    /\ last.sub = "uart"
    /\ last.res = "Ok"
    /\ last.writes # <<>>
    /\ vmcs.GuestRip = last.rip

\* C15: every ExternalInterrupt exit, whatever its vector and whatever the
\* outcome of the handling of the vector, has sent exactly one EOI to the
\* local APIC when handle_vmexit returns.
EoiAfterEveryExternalInterrupt ==
    last.exit = "ExternalInterrupt" => last.eoi = 1

\* What the dispatch does: the EOI is sent exactly when the handling of the
\* vector returned no error, and no other exit sends one.
EoiWhenVectorHandled ==
    last.eoi = IF /\ last.exit = "ExternalInterrupt"
                  /\ last.sub # "ipc_none"
                  /\ (last.ok \/ (last.sub = "uart" /\ ~last.hadSerial)
                        \/ last.sub \in {"ipc_grant", "other"})
               THEN 1 ELSE 0

\* An IPC-vector exit on an empty queue returned without an EOI.
EoiSkippedWitness ==
    /\ last.exit = "ExternalInterrupt"
    /\ last.sub = "ipc_none"
    /\ last.res = "Err"
    /\ last.eoi = 0

\* C16: an IPC-vector exit that finds the message queue empty is handled
\* locally: handle_vmexit returns Ok and the serial ownership is unchanged.
EmptyIpcQueueIsLocal ==
    (last.exit = "ExternalInterrupt" /\ last.sub = "ipc_none") =>
        /\ last.res = "Ok"
        /\ serial = last.hadSerial

\* What the dispatch does: the empty queue is Error::NotFound, returned to
\* the caller of handle_vmexit before the timers are looked at.
EmptyIpcQueueFails ==
    (last.exit = "ExternalInterrupt" /\ last.sub = "ipc_none") =>
        /\ last.res = "Err"
        /\ ~last.post
        /\ mode = "halted"
        /\ serial = last.hadSerial

EmptyIpcQueueWitness ==
    /\ last.exit = "ExternalInterrupt"
    /\ last.sub = "ipc_none"
    /\ mode = "halted"
    /\ last.writes = <<>>

\* C17: an exit whose reason has no handler is fatal: handle_vmexit does
\* not return Ok and the guest is not entered again; the call has written
\* no VMCS field, GuestRip and the controls included, and has left the
\* pending set as it was.
UnhandledExitIsFatal ==
    last.exit = "Other" =>
        /\ last.res = "Panic"
        /\ mode = "halted"
        /\ last.writes = <<>>
        /\ vmcs.GuestRip = last.rip
        /\ pending = last.before
        /\ last.added = {}

UnhandledExitIsFatalWitness ==
    /\ last.exit = "Other"
    /\ mode = "halted"
    /\ pending # <<>>
    /\ WindowSet

(***************************************************************************)
(* Properties of the RdMsr arm.                                            *)
(***************************************************************************)
\* C18: after a RdMsr exit with RCX naming IA32_APIC_BASE, RAX holds the low
\* 32 bits and RDX the high 32 bits of the real MSR value with bit 10
\* cleared, and the other registers are as they were (0xFEE00D00 gives
\* RDX = 0 and RAX = 0xFEE00900); a RdMsr exit for another MSR is fatal and
\* the guest is not entered again.
ApicBaseRead ==
    emu.op = "rdmsr" =>
        IF AsU32(emu.before.rcx) = IA32_APIC_BASE
        THEN /\ \A b \in 0 .. 31 :
                    /\ b \in cpu.rax <=> (b \in apicBase /\ b # 10)
                    /\ b \in cpu.rdx <=> b + 32 \in apicBase
             /\ cpu.rax \cap (32 .. 63) = {}
             /\ cpu.rdx \cap (32 .. 63) = {}
             /\ cpu.rbx = emu.before.rbx
             /\ cpu.rcx = emu.before.rcx
             /\ apicBase = Shl(Bits(\hFEE00), 12) \cup Bits(\hD00) =>
                    /\ cpu.rdx = {}
                    /\ cpu.rax = Shl(Bits(\hFEE00), 12) \cup Bits(\h900)
        ELSE /\ last.res = "Panic"
             /\ mode = "halted"
             /\ cpu = emu.before

ApicBaseReadWitness ==
    /\ emu.op = "rdmsr"
    /\ last.res = "Ok"
    /\ emu.before.rcx = IA32_APIC_BASE
    /\ emu.before.rdx # {}
    /\ apicBase = Shl(Bits(\hFEE00), 12) \cup Bits(\hD00)
    /\ cpu.rdx = {}
    /\ cpu.rax = Shl(Bits(\hFEE00), 12) \cup Bits(\h900)

(***************************************************************************)
(* Properties of emulate_portio.                                           *)
(***************************************************************************)
\* The word a sequence of bytes denotes, the first byte the most
\* significant.
RECURSIVE WordOfBytes(_)
WordOfBytes(bytes) ==
    IF bytes = <<>> THEN {}
    ELSE Shl(Bits(Head(bytes)), 8 * (Len(bytes) - 1))
             \cup WordOfBytes(Tail(bytes))

\* C20: for a non-string port write of size 1, 2 or 4 the device bound to
\* the port receives exactly one on_port_write, of `size` bytes that are the
\* low `size` bytes of RAX (RAX mod 2^(8*size)), and RAX and every other
\* register are as they were.
PortWriteDelivers ==
    (emu.op = "portio" /\ ~emu.input /\ ~emu.string) =>
        /\ cpu = emu.before
        /\ Len(emu.received) = IF DeviceFor(emu.port) THEN 1 ELSE 0
        /\ DeviceFor(emu.port) =>
              /\ emu.received[1][1] = emu.port
              /\ Len(emu.received[1][2]) = emu.size
              /\ WordOfBytes(emu.received[1][2])
                    = cpu.rax \cap (0 .. 8 * emu.size - 1)

PortWriteDeliversWitness ==
    /\ emu.op = "portio"
    /\ ~emu.input /\ ~emu.string
    /\ emu.res = "Ok"
    /\ emu.size = 2
    /\ cpu.rax = Shl(Bits(\h1234), 16) \cup Bits(\h5678)
    /\ emu.received = << <<COM1, <<\h56, \h78>> >> >>

(***************************************************************************)
(* Properties of the console handover.                                     *)
(***************************************************************************)
\* The GrantConsole messages waiting in the queues.
RECURSIVE GrantsIn(_)
GrantsIn(vms) ==
    IF vms = {} THEN 0
    ELSE LET v == CHOOSE x \in vms : TRUE
         IN  Len(SelectSeq(queue[v], LAMBDA m : m = "GrantConsole"))
                 + GrantsIn(vms \ {v})

PortReadSplices ==
    (emu.op = "portio" /\ emu.input /\ ~emu.string /\ emu.res = "Ok") =>
        LET mask == 0 .. 8 * emu.size - 1
        IN  cpu.rax = (emu.before.rax \ mask) \cup (emu.reads[1] \cap mask)

\* What the read does: the low bytes hold the device value, and a higher
\* bit of RAX survives only if the bit `size` bytes below it was clear.
PortReadClobbers ==
    (emu.op = "portio" /\ emu.input /\ ~emu.string /\ emu.res = "Ok") =>
        LET shift == 8 * emu.size
        IN  \A b \in 0 .. 63 :
                b \in cpu.rax <=>
                    IF b < shift THEN b \in emu.reads[1]
                    ELSE b \in emu.before.rax /\ b - shift \notin emu.before.rax

\* RAX = 0x12345678, a one-byte read of 0: RAX ends as 0x02200600, not as
\* 0x12345600.
PortReadClobbersWitness ==
    /\ emu.op = "portio" /\ emu.input /\ ~emu.string
    /\ emu.res = "Ok"
    /\ emu.size = 1
    /\ emu.reads = << {} >>
    /\ emu.before.rax = Shl(Bits(\h1234), 16) \cup Bits(\h5678)
    /\ cpu.rax = Bits(\h02200600)

\* The bytes of the on_port_write calls, in the order of the calls.
ReceivedBytes == Flatten([k \in 1 .. Len(emu.received) |-> emu.received[k][2]])

\* A string port I/O that returned Ok.
StringDone(input) ==
    emu.op = "portio" /\ emu.string /\ emu.input = input /\ emu.res = "Ok"

\* What emulate_outs does: RCX writes of `size` bytes, the guest memory in
\* address order, RSI advanced by RCX * size, RCX zero.
OutsTransfers ==
    StringDone(FALSE) =>
        LET count == ToNat(emu.before.rcx)
        IN  /\ Len(emu.received) = count
            /\ \A k \in 1 .. count : Len(emu.received[k][2]) = emu.size
            /\ ReceivedBytes = GuestBytes(count * emu.size)
            /\ cpu.rsi = Bits(ToNat(emu.before.rsi) + count * emu.size)
            /\ cpu.rdi = emu.before.rdi
            /\ cpu.rcx = {}

\* What C22 says of emulate_ins: RCX reads of `size` bytes, stored in
\* address order, RDI advanced by RCX * size, RCX zero.
InsTransfers ==
    StringDone(TRUE) =>
        LET count == ToNat(emu.before.rcx)
        IN  /\ Len(emu.reads) = count
            /\ \A k \in 1 .. count : Len(emu.reads[k]) = emu.size
            /\ emu.written = Flatten(emu.reads)
            /\ cpu.rdi = Bits(ToNat(emu.before.rdi) + count * emu.size)
            /\ cpu.rsi = emu.before.rsi
            /\ cpu.rcx = {}

\* C22: a string port I/O with count RCX and operand size 1, 2 or 4 makes
\* exactly RCX device transfers of `size` bytes each, in address order,
\* advances RSI (outs) or RDI (ins) by RCX * size and leaves RCX zero.
StringTransfers == OutsTransfers /\ InsTransfers

\* What emulate_ins does: the buffer has RCX bytes, not RCX * size, so the
\* device is read RCX / size times, rounded down, the rest of the buffer is
\* zero, and RDI advances by RCX.
InsTransfersBytes ==
    StringDone(TRUE) =>
        LET count == ToNat(emu.before.rcx)
        IN  /\ Len(emu.reads) = count \div emu.size
            /\ Len(emu.written) = count
            /\ cpu.rdi = Bits(ToNat(emu.before.rdi) + count)
            /\ cpu.rcx = {}

\* INS of words with RCX = 3: one read, three bytes stored, RDI + 3.
InsShortWitness ==
    /\ StringDone(TRUE)
    /\ emu.size = 2
    /\ emu.before.rcx = Bits(3)
    /\ Len(emu.reads) = 1
    /\ Len(emu.written) = 3
    /\ cpu.rdi = Bits(\h3003)

\* The failing port I/O left the guest and the VCPU as they were: no
\* register changed, nothing written to guest memory or to the device,
\* handle_vmexit returned the error, GuestRip not written, nothing merged
\* into the pending set and nothing injected.
PortFailureFrame ==
    /\ cpu = emu.before
    /\ emu.written = <<>>
    /\ emu.received = <<>>
    /\ last.res = "Err"
    /\ mode = "halted"
    /\ GuestRipWrites = <<>>
    /\ vmcs.GuestRip = last.rip
    /\ pending = last.before
    /\ last.added = {}
    /\ IntrInfoWrites = <<>>

\* C23 as stated: a port I/O exit, string or not, read or write, on a port
\* with no device fails with MissingDevice, no guest register modified,
\* guest memory not written, GuestRip not advanced, and handle_vmexit
\* returns the error without injecting.
UnboundPortIsMissingDevice ==
    (emu.op = "portio" /\ emu.port = UnboundPort) =>
        /\ emu.res = "MissingDevice"
        /\ PortFailureFrame

\* C23: a port I/O exit on a port with no device fails, with MissingDevice
\* or, for a string write whose read of the guest memory fails before the
\* device is looked up, with the error of that read; on that failure no
\* guest register is modified, guest memory is not written, GuestRip is not
\* advanced, and handle_vmexit returns the error without injecting.
UnboundPortFails ==
    (emu.op = "portio" /\ emu.port = UnboundPort) =>
        /\ \/ emu.res = "MissingDevice"
           \/ emu.res = "MemoryError" /\ emu.string /\ ~emu.input
        /\ PortFailureFrame

UnboundPortFailsWitness ==
    /\ emu.op = "portio"
    /\ emu.port = UnboundPort
    /\ emu.string /\ emu.input
    /\ emu.res = "MissingDevice"
    /\ emu.before.rcx = Bits(3)
    /\ cpu.rcx = Bits(3)
    /\ mode = "halted"

(***************************************************************************)
(* Properties of the post-amble of handle_vmexit: timers and the empty     *)
(* pending set.                                                            *)
(***************************************************************************)
\* C24: when the pending set is empty after the dispatcher and the timers,
\* handle_vmexit returns Ok without injecting: INTERRUPT_WINDOW_EXITING is
\* clear in CpuBasedVmExecControl and VmEntryIntrInfoField has not been
\* written.
EmptyPendingReturn ==
    (last.post /\ last.merged = <<>>) =>
        /\ last.res = "Ok"
        /\ ~WindowSet
        /\ IntrInfoWrites = <<>>
        /\ 31 \notin vmcs.VmEntryIntrInfoField
        /\ pending = <<>>

EmptyPendingReturnWitness ==
    /\ last.post
    /\ last.merged = <<>>
    /\ last.exit = "InterruptWindow"
    /\ last.res = "Ok"
    /\ ~WindowSet

\* C27: a failure of the timer expiry is local: handle_vmexit still returns
\* Ok, and the pending set and GuestRip keep the values the dispatcher left.
TimerErrorIsLocal ==
    last.timers = "err" =>
        /\ last.res = "Ok"
        /\ PendingVectors(pending) = PendingVectors(last.before) \cup last.added

\* What the call does: `expire_elapsed_timers()?` returns the error to the
\* caller of handle_vmexit. Nothing is injected and no control is written;
\* the pending set holds what the dispatcher left in it.
TimerErrorPropagates ==
    last.timers = "err" =>
        /\ last.res = "Err"
        /\ mode = "halted"
        /\ ~last.post
        /\ PendingVectors(pending) = PendingVectors(last.before) \cup last.added
        /\ \A i \in 1..Len(last.writes) : last.writes[i][1] = "GuestRip"

TimerErrorWitness ==
    /\ last.timers = "err"
    /\ last.res = "Err"
    /\ mode = "halted"
    /\ last.added # {}
    /\ last.writes # <<>>

\* The (vector, kind) pairs of the Interrupt responses among rs.
InterruptsOf(rs) ==
    {<<rs[i].vector, rs[i].kind>> :
        i \in {j \in 1..Len(rs) : rs[j].type = "Interrupt"}}

\* The entries of a pending set.
EntriesIn(p) == {p[i] : i \in 1..Len(p)}

\* C28: the device responses are drained in the order they were enqueued,
\* and every Interrupt(vector, kind) response and every expired timer's
\* (vector, kind) is in the pending set when the same handle_vmexit decides
\* what to inject: the entry it injects is the lowest of that merged set.
ResponsesMergedBeforeInjection ==
    /\ last.drained = SubSeq(last.responses, 1, Len(last.drained))
    /\ last.timers # "none" => last.drained = last.responses
    /\ last.post =>
        /\ InterruptsOf(last.responses) \subseteq EntriesIn(last.merged)
        /\ EntriesIn(last.fired) \subseteq EntriesIn(last.merged)
        /\ \A i \in 1..Len(IntrInfoWrites) :
                IntrInfoWrites[i][2] = IntrInfo(Head(last.merged))

\* A response and a timer of the same exit, the response's vector the lower
\* one and below everything that was pending: it is the one injected.
ResponsesMergedWitness ==
    /\ last.post
    /\ last.before # <<>>
    /\ \E v \in Vectors :
        /\ last.responses = <<InterruptResponse(v, irqKind)>>
        /\ Len(last.fired) = 1
        /\ last.fired[1][1] > v
        /\ \A e \in EntriesIn(last.before) : e[1] > v
        /\ IntrInfoWrites = << <<"VmEntryIntrInfoField", IntrInfo(<<v, irqKind>>)>> >>

\* Two different responses, both drained.
TwoResponsesDrained ==
    /\ last.res = "Ok"
    /\ Len(last.drained) = 2
    /\ last.drained[1] # last.drained[2]

\* C30: the lock of the VM is never held across a VM entry: when
\* handle_vmexit returns, with Ok or with an error, every guard the call
\* took (port I/O emulation, UART keypress, GrantConsole, NextConsole,
\* GuestUartTransmitted) has been released.
GuardsReleasedOnReturn ==
    mode \in {"host", "halted"} => last.held = <<>>

\* A call that took guards and returned an error: a keypress whose dispatch
\* fails, or a handover that fails after a port I/O emulation.
GuardsReleasedWitness ==
    /\ last.res = "Err"
    /\ last.took >= 2
    /\ mode = "halted"

\* A call that took guards and returned Ok, the guest about to be entered.
GuardsReleasedOkWitness ==
    /\ last.res = "Ok"
    /\ last.took >= 3
    /\ mode = "host"

\* C25: when write_with_fixed fails because the caller asked for a bit the
\* MSR forbids, no vmwrite is issued: the target field keeps its previous
\* value, and with no write issued so does every other field.
ForbiddenBitWritesNothing ==
    (wf.called /\ ~wf.ok) =>
        /\ wf.writes = 0
        /\ wf.field = wf.before
        /\ wf.ret = {}

\* A failing call on a field that held something, where the value the
\* call would have written differs from it.
ForbiddenBitWitness ==
    /\ wf.called
    /\ ~wf.ok
    /\ wf.value \ Shr(wf.fixed, 32) # {}
    /\ wf.before # {}
    /\ VmcsWriteWithFixed(wf.value, wf.fixed).required # wf.before

\* The regions a handle holds activated.
HeldActive == {r \in Regions : hstate[r] \in {"Active", "TempActive"}}

\* C26: no VMCS region is held Active or TempActive twice; a region leaves
\* Active only through deactivate, which clears it, and leaves TempActive
\* only through the scoped clear, so that it is never activated again
\* without a clear in between.
RegionLeavesActiveCleared ==
    [][\A r \in Regions :
          /\ Cardinality(HeldActive) <= 1
          /\ (hstate[r] = "Active" /\ hstate'[r] # "Active") =>
                (hstate'[r] = "Inactive" /\ current' # r)
          /\ (hstate[r] = "TempActive" /\ hstate'[r] # "TempActive") =>
                (hstate'[r] = "Panicked" \/ current' # r)]_vars

\* What does hold: the Vmx value is moved or borrowed into the handle, so
\* one handle at most exists, and a TemporaryActiveVmcs ends with its clear.
RegionHeldOnce ==
    [][\A r \in Regions :
          /\ Cardinality(HeldActive) <= 1
          /\ (hstate[r] = "TempActive" /\ hstate'[r] # "TempActive") =>
                (hstate'[r] = "Panicked" \/ current' # r)]_vars

\* An ActiveVmcs is gone, its Vmcs and Vmx with it, and its region is
\* still the core's current VMCS.
RegionLeftActiveWitness ==
    \E r \in Regions :
        /\ hstate[r] = "Unallocated"
        /\ current = r
        /\ vmx = "none"

\* C29: after a successful VCpu::new, before the launch, the VMCS holds the
\* power-on guest state: CS selector 0xF000 with base 0xFFFF0000, GuestRip
\* 0xFFF0, every other segment selector and every other base zero, every
\* limit 0xFFFF, GuestRflags 0x2, GuestCr3 zero, and GuestCr0 with PE
\* (bit 0) and PG (bit 31) clear.
PowerOnGuestState ==
    (vcall.op = "VCpu::new" /\ vcall.status = "constructed") =>
        /\ vmcs["GuestCsSelector"] = Bits(\hF000)
        /\ vmcs["GuestCsBase"] = {i \in 16..31 : TRUE}
        /\ vmcs["GuestRip"] = Bits(\hFFF0)
        /\ \A f \in {"GuestEsSelector", "GuestSsSelector", "GuestDsSelector",
                      "GuestFsSelector", "GuestGsSelector", "GuestTrSelector",
                      "GuestLdtrSelector"} : vmcs[f] = {}
        /\ \A f \in {"GuestEsBase", "GuestSsBase", "GuestDsBase",
                      "GuestFsBase", "GuestGsBase", "GuestTrBase",
                      "GuestLdtrBase", "GuestIdtrBase", "GuestGdtrBase"} :
                vmcs[f] = {}
        /\ \A f \in {"GuestEsLimit", "GuestCsLimit", "GuestSsLimit",
                      "GuestDsLimit", "GuestFsLimit", "GuestGsLimit",
                      "GuestTrLimit", "GuestLdtrLimit", "GuestIdtrLimit",
                      "GuestGdtrLimit"} : vmcs[f] = 0..15
        /\ vmcs["GuestRflags"] = {1}
        /\ vmcs["GuestCr3"] = {}
        /\ 0 \notin vmcs["GuestCr0"]
        /\ 31 \notin vmcs["GuestCr0"]

\* A construction over a frame that held ones everywhere, on a core whose
\* IA32_VMX_CR0_FIXED0 asks for PE, NE and PG.
PowerOnGuestStateWitness ==
    /\ vcall.op = "VCpu::new"
    /\ vcall.status = "constructed"
    /\ vcall.step = Len(GuestStateWrites({}, {}))
    /\ vmcs["GuestPendingDbgExceptions"] = WordBits
    /\ vmcs["GuestCr0"] = {5}
    /\ vmcs["Cr0GuestHostMask"] = {5}

\* The writes of CpuBasedVmExecControl the call issued.
ControlWrites ==
    SelectSeq(last.writes, LAMBDA w : w[1] = "CpuBasedVmExecControl")

\* The primary controls apart from INTERRUPT_WINDOW_EXITING.
OtherControls(field) == field \ INTERRUPT_WINDOW_EXITING

\* C31: handle_vmexit changes no bit of CpuBasedVmExecControl other than
\* INTERRUPT_WINDOW_EXITING: after any sequence of exits, and in every
\* value a call writes to the field, every other bit has the value
\* initialize_ctrl_vmcs programmed.
OnlyWindowBitChanges ==
    /\ OtherControls(vmcs.CpuBasedVmExecControl)
            = OtherControls(InitialCpuBasedCtl)
    /\ \A i \in 1..Len(ControlWrites) :
            OtherControls(ControlWrites[i][2]) = OtherControls(InitialCpuBasedCtl)

\* An interrupt-window exit whose call cleared the window for the
\* injection and set it again for what is still pending.
OnlyWindowBitChangesWitness ==
    /\ mode = "host"
    /\ Len(ControlWrites) = 2
    /\ 2 \notin ControlWrites[1][2]
    /\ 2 \in ControlWrites[2][2]
    /\ last.exit = "InterruptWindow"
    /\ OtherControls(vmcs.CpuBasedVmExecControl) # {}

\* The entry of the merged set the call took out, by its vector.
MergedEntry(v) == CHOOSE e \in EntriesIn(last.merged) : e[1] = v

ErrorKeepsPendingWitness ==
    /\ last.res = "Err"
    /\ last.before # <<>>
    /\ last.added # {}
    /\ Len(pending) > Len(last.before)

\* The VMs that own the serial device, plus the GrantConsole messages in
\* flight, each of which carries it.
SerialHolders == Cardinality({v \in VmIds : owner[v]}) + GrantsIn(VmIds)

\* C33: the physical serial device is conserved across the handovers: in
\* every reachable state, after a failed send_vm_msg or a failed GSI
\* mapping too, it is owned by exactly one VM or carried by exactly one
\* GrantConsole message in flight, never owned twice and never dropped.
SerialConserved == SerialHolders = 1

\* What holds: the device is never held twice, and it is held once except
\* after a handover whose send_vm_msg failed, which has taken the device
\* out of its VM and delivered no message.
SerialLostOnlyByFailedSend ==
    \/ SerialHolders = 1
    \/ /\ SerialHolders = 0
       /\ con.op = "NextConsole"
       /\ con.hadSerial
       /\ con.res = "Err"
       /\ con.sent = <<>>

\* The handover of the owner failed at send_vm_msg: no VM owns the device
\* and no message carries it; GSI 4 is still routed to the VM that had it.
SerialDroppedWitness ==
    /\ con.op = "NextConsole"
    /\ con.hadSerial
    /\ con.res = "Err"
    /\ \A v \in VmIds : ~owner[v]
    /\ GrantsIn(VmIds) = 0
    /\ gsi.dest = con.vm

====
